---------------------------- MODULE Spec2Model ----------------------------
(***************************************************************************)
(* HEVIA, notation service: the evaluation ledger (EvaluationService), the *)
(* teaching-unit configuration (UEService), the derived final grades (the  *)
(* store's trigger update_note_finale_ue and the service's                 *)
(* getNoteFinaleUE) and the ranking (CalculService).                       *)
(*                                                                         *)
(* Every DECIMAL(5,2) value (note, note_sur_20, pourcentage, note_finale,  *)
(* moyenne_generale, ...) is an integer number of hundredths: 13.40 is     *)
(* 1340 and 30 % is 3000.  Arithmetic is exact.                            *)
(*                                                                         *)
(* The service's result objects are written with shorthand properties      *)
(* whose names differ from the local variables (est_capitalisee for        *)
(* estCapitalisee, evaluation.service.ts:364); the model binds each        *)
(* property to the local variable of that meaning.                         *)
(***************************************************************************)
EXTENDS Integers, Sequences, FiniteSets, TLC

VARIABLES
  composantes,     \* notation.composantes_evaluation: set of rows
  evaluations,     \* notation.resultats_evaluation: set of rows
  notes_finales,   \* notation.notes_finales_ue: set of rows
  calls,           \* per caller: the service call in flight or its outcome
  ret,             \* what the last read-only or configuration call returned
  recaps,          \* notation.recap_etudiants: set of rows
  classement,      \* what calculerClassementNiveau returned last
  statistiques,    \* notation.statistiques_ue: set of rows
  unites,          \* notation.unites_enseignement: set of rows
  users,           \* authperms.users: set of rows
  permissions,     \* authperms.permissions: set of rows
  userperms,       \* authperms.userperms: set of rows
  token_blacklist, \* authperms.token_blacklist: set of rows
  now,             \* the clock, in hours
  tokens,          \* the tokens issued so far, each held by its client
  accessTokenExpiry, \* JWTService.accessTokenExpiry, in hours
  revoked,         \* history: the access tokens a successful logout carried
  authret          \* what the last call of the service authPerms answered

\* The tables of the service authPerms, its clock, its configuration and its
\* answers.
authperms == <<users, permissions, userperms, token_blacklist, now, tokens,
               accessTokenExpiry, revoked, authret>>

\* The tables of the service notation and its calls.
notation == <<composantes, evaluations, notes_finales, calls, ret, recaps,
              classement, statistiques, unites>>

vars == <<notation, authperms>>

--------------------------------------------------------------------------
(* Bounds of the model *)

\* resultats_evaluation.version and notes_finales_ue.version_calcul grow
\* without limit; writes are cut off at this version.
MaxVersion == 2

\* The marks (hundredths of a point) a caller may submit; 2100 is out of the
\* range of a 20-point component.
Notes == {800, 1500, 2100}

Students == {"ETU1"}

\* What a submission carries besides the mark: its date, its author and its
\* comment.
Dates == {"2024-01-15", "2024-06-20"}
Enseignants == {"ENS20230001", "ENS20230002"}
Commentaires == {"", "copie recorrigee"}
Metas == [date_evaluation : Dates, saisie_par : Enseignants,
          commentaire : Commentaires]
FirstMeta == [date_evaluation |-> "2024-01-15", saisie_par |-> "ENS20230001",
              commentaire |-> ""]

None == [id |-> 0]

\* The units of the seed (migration 300-307), none archived or deleted.
SeedUnites ==
  {[code_ue |-> "INF201", enseignant_responsable |-> "ENS20230001",
    statut |-> "actif", deleted |-> FALSE],
   [code_ue |-> "INF202", enseignant_responsable |-> "ENS20230001",
    statut |-> "actif", deleted |-> FALSE],
   [code_ue |-> "INF203", enseignant_responsable |-> "",
    statut |-> "actif", deleted |-> FALSE],
   [code_ue |-> "MAT201", enseignant_responsable |-> "",
    statut |-> "actif", deleted |-> FALSE]}

\* No token: the payload of nothing.
NoToken == [kind |-> "", matricule |-> "", role |-> "", iat |-> 0, exp |-> 0]

\* process.env.JWT_ACCESS_EXPIRY || '2h' and the 7 days of the refresh
\* token, in hours.
DefaultAccessExpiry == 2
RefreshExpiry == 168

\* The answer of the service authPerms before any call.
NoAuthRet == [op |-> "", res |-> "", matricule |-> "", token |-> NoToken,
              nom_objet |-> "", action |-> "", allowed |-> FALSE]

\* The service authPerms with no permission, no revoked token and no token
\* issued.
InitSessions ==
  /\ permissions = {}
  /\ userperms = {}
  /\ token_blacklist = {}
  /\ now = 0
  /\ tokens = {}
  /\ accessTokenExpiry = DefaultAccessExpiry
  /\ revoked = {}
  /\ authret = NoAuthRet

\* The service authPerms before any account exists.
InitAuthPerms ==
  /\ users = {}
  /\ InitSessions

\* UERepository.findByCode: the row of the unit that is not deleted.
UERepository_findByCode(rows, codeUE) ==
  IF \E u \in rows : u.code_ue = codeUE /\ ~u.deleted
  THEN CHOOSE u \in rows : u.code_ue = codeUE /\ ~u.deleted
  ELSE None

Statuts == {"provisoire", "definitif", "annule", "en_attente", "rattrapage"}

\* Nothing returned yet.
NoParams == [min_capitalisation |-> 0, max_ue_non_capitalisees |-> 0,
             found |-> FALSE]

\* The result object of a CalculService call, before any call.
NoResult == [moyenne_generale |-> 0, moyenne_ponderee |-> 0,
             pourcentage_capitalisation |-> 0, ue_capitalisees |-> 0,
             ue_total |-> 0, credits_obtenus |-> 0, credits_total |-> 0,
             capitalisees |-> {}, eligible |-> FALSE, criteres |-> <<>>,
             params |-> NoParams]

NoRet == [op |-> "", res |-> "", note_finale |-> 0, est_capitalisee |-> FALSE,
          mention |-> "", details |-> 0, result |-> NoResult]

--------------------------------------------------------------------------
(* Arithmetic *)

\* Math.round(n / d) for n >= 0, d > 0: floor(n/d + 1/2).
MathRoundTrunc(n, d) == n \div d

MathRound(n, d) == (2 * n + d) \div (2 * d)

\* PostgreSQL's rounding of a non-negative NUMERIC n/d to the column scale.
NumericRound(n, d) == (2 * n + d) \div (2 * d)

--------------------------------------------------------------------------
(* The store: notation.composantes_evaluation, notation.resultats_evaluation *)
(* and notation.notes_finales_ue, with their constraints and triggers        *)

Qualifying == {"definitif", "rattrapage"}

MentionsAllowed ==
  {"elimine", "echec", "passable", "assez-bien", "tres-bien", "excellent"}

\* The component row with this id; None when there is none.
getComposante(comps, cid) ==
  IF \E c \in comps : c.id = cid
  THEN CHOOSE c \in comps : c.id = cid
  ELSE None

\* The generated column note_sur_20 of resultats_evaluation.
note_sur_20(note, nb_points) ==
  IF nb_points = 0 THEN 0 ELSE NumericRound(note * 20, nb_points)

\* The constraint UNIQUE (matricule_etudiant, composante_id): it is dropped
\* in the variant NoUniqueConstraint.
NoUniqueConstraint(rows) == TRUE

uq_evaluation_etudiant_composante(rows) ==
  \A a, b \in rows :
    (a.matricule_etudiant = b.matricule_etudiant
       /\ a.composante_id = b.composante_id) => a.id = b.id

\* The rows the trigger's SELECT joins: those of the student, in the unit,
\* whose statut is definitif or rattrapage.
QualifyingRows(evals, comps, etu, ue) ==
  {e \in evals :
     /\ e.matricule_etudiant = etu
     /\ getComposante(comps, e.composante_id) # None
     /\ getComposante(comps, e.composante_id).code_ue = ue
     /\ e.statut \in Qualifying}

\* SUM(re.note_sur_20 * ce.pourcentage / 100.0), in millionths of a point.
RECURSIVE SumContributions(_, _)
SumContributions(rows, comps) ==
  IF rows = {} THEN 0
  ELSE LET e == CHOOSE x \in rows : TRUE
       IN e.note_sur_20 * getComposante(comps, e.composante_id).pourcentage
            + SumContributions(rows \ {e}, comps)

\* The CASE of the trigger; raw is in millionths of a point.
TriggerMention(raw) ==
  IF raw >= 18000000 THEN "excellent"
  ELSE IF raw >= 16000000 THEN "tres-bien"
  ELSE IF raw >= 14000000 THEN "bien"
  ELSE IF raw >= 12000000 THEN "assez-bien"
  ELSE IF raw >= 10000000 THEN "passable"
  ELSE "echec"

\* notes_finales_ue without the CHECK on note_finale.
note_finale_unchecked(v) == TRUE

\* CHECK (note_finale >= 0 AND note_finale <= 20) of notes_finales_ue.
note_finale_check(v) == v >= 0 /\ v <= 2000

\* ON CONFLICT DO UPDATE of the trigger: the row's computation version.
UpsertKeepsVersion(old) == old.version_calcul

UpsertVersion(old) == old.version_calcul + 1

\* notation.update_note_finale_ue() for the written row (NEW in the trigger): the table
\* notes_finales_ue after it, and whether its INSERT passed the CHECKs of
\* the table (a failed CHECK aborts the statement that fired the trigger).
update_note_finale_ue(NEWROW, evals, comps, nf) ==
  LET v_code_ue == getComposante(comps, NEWROW.composante_id).code_ue
      rows == QualifyingRows(evals, comps, NEWROW.matricule_etudiant, v_code_ue)
      raw == SumContributions(rows, comps)
      v_note_finale == NumericRound(raw, 10000)
      v_est_capitalisee == (raw >= 10000000)
      v_mention == TriggerMention(raw)
      old == {r \in nf : r.matricule_etudiant = NEWROW.matricule_etudiant
                           /\ r.code_ue = v_code_ue}
      row == [matricule_etudiant |-> NEWROW.matricule_etudiant,
              code_ue |-> v_code_ue,
              note_finale |-> v_note_finale,
              est_capitalisee |-> v_est_capitalisee,
              mention |-> v_mention,
              version_calcul |->
                IF old = {} THEN 1
                ELSE UpsertVersion(CHOOSE r \in old : TRUE)]
  IN [ok |-> /\ rows # {}
             /\ note_finale_check(row.note_finale)
             /\ row.mention \in MentionsAllowed,
      nf |-> (nf \ old) \cup {row}]

\* WHEN clause of trg_update_note_finale: the trigger runs only for a row
\* whose new statut is definitif or rattrapage.
trg_update_note_finale(NEWROW) == NEWROW.statut \in Qualifying

\* A statement whose trigger also rewrites the comment of the student's
\* other entries.
StatementRewritingLedger(NEWROW, evals2, evals, comps, nf) ==
  IF ~(uq_evaluation_etudiant_composante(evals2) /\ NEWROW.note >= 0)
  THEN [res |-> "DB_ERROR", evals |-> evals, nf |-> nf]
  ELSE IF ~trg_update_note_finale(NEWROW)
  THEN [res |-> "ok", evals |-> evals2, nf |-> nf]
  ELSE LET t == update_note_finale_ue(NEWROW, evals2, comps, nf)
       IN IF t.ok
          THEN [res |-> "ok",
                evals |-> {IF e.matricule_etudiant = NEWROW.matricule_etudiant
                           THEN [e EXCEPT !.commentaire = "recalcule"]
                           ELSE e : e \in evals2},
                nf |-> t.nf]
          ELSE [res |-> "DB_ERROR", evals |-> evals, nf |-> nf]

\* One INSERT or UPDATE statement on resultats_evaluation that leaves the
\* row NEWROW (the trigger's NEW) in the table evals2: the constraints, then the AFTER trigger.
\* The result is the new state of both tables, or the old one with an error.
Statement(NEWROW, evals2, evals, comps, nf) ==
  IF ~(uq_evaluation_etudiant_composante(evals2) /\ NEWROW.note >= 0)
  THEN [res |-> "DB_ERROR", evals |-> evals, nf |-> nf]
  ELSE IF ~trg_update_note_finale(NEWROW)
  THEN [res |-> "ok", evals |-> evals2, nf |-> nf]
  ELSE LET t == update_note_finale_ue(NEWROW, evals2, comps, nf)
       IN IF t.ok
          THEN [res |-> "ok", evals |-> evals2, nf |-> t.nf]
          ELSE [res |-> "DB_ERROR", evals |-> evals, nf |-> nf]

--------------------------------------------------------------------------
(* EvaluationRepository: the statements the service issues *)

findByEtudiantAndComposante(evals, etu, cid) ==
  IF \E e \in evals : e.matricule_etudiant = etu /\ e.composante_id = cid
  THEN CHOOSE e \in evals : e.matricule_etudiant = etu /\ e.composante_id = cid
  ELSE None

findById(evals, id) ==
  IF \E e \in evals : e.id = id
  THEN CHOOSE e \in evals : e.id = id
  ELSE None

NextId(evals) ==
  IF evals = {} THEN 1
  ELSE 1 + (CHOOSE n \in {e.id : e \in evals} : \A e \in evals : e.id <= n)

\* INSERT INTO notation.resultats_evaluation; version defaults to 1.
EvaluationRepository_create(data, evals, comps, nf) ==
  LET NEWROW == [id |-> NextId(evals),
                 matricule_etudiant |-> data.matricule_etudiant,
                 composante_id |-> data.composante_id,
                 note |-> data.note,
                 note_sur_20 |->
                   note_sur_20(data.note,
                               getComposante(comps, data.composante_id).nb_points),
                 date_evaluation |-> data.date_evaluation,
                 saisie_par |-> data.saisie_par,
                 commentaire |-> data.commentaire,
                 statut |-> data.statut,
                 version |-> 1]
  IN Statement(NEWROW, evals \cup {NEWROW}, evals, comps, nf)

\* The store's optimistic check: a patch that carries a version is applied
\* only to the row whose stored version is the one before it.
VersionMatches(row, patch) ==
  "version" \in DOMAIN patch => row.version = patch.version - 1

\* UPDATE notation.resultats_evaluation SET <patch> WHERE id = <id>.
EvaluationRepository_update(id, patch, evals, comps, nf) ==
  LET row == findById(evals, id)
      note == IF "note" \in DOMAIN patch THEN patch.note ELSE row.note
      NEWROW == [id |-> row.id,
                 matricule_etudiant |-> row.matricule_etudiant,
                 composante_id |-> row.composante_id,
                 note |-> note,
                 note_sur_20 |->
                   note_sur_20(note,
                               getComposante(comps, row.composante_id).nb_points),
                 date_evaluation |-> IF "date_evaluation" \in DOMAIN patch
                                     THEN patch.date_evaluation
                                     ELSE row.date_evaluation,
                 saisie_par |-> IF "saisie_par" \in DOMAIN patch
                                THEN patch.saisie_par ELSE row.saisie_par,
                 commentaire |-> IF "commentaire" \in DOMAIN patch
                                 THEN patch.commentaire ELSE row.commentaire,
                 statut |-> IF "statut" \in DOMAIN patch
                            THEN patch.statut ELSE row.statut,
                 version |-> IF "version" \in DOMAIN patch
                             THEN patch.version ELSE row.version]
  IN IF ~VersionMatches(row, patch)
     THEN [res |-> "ConcurrentModification", evals |-> evals, nf |-> nf]
     ELSE Statement(NEWROW, (evals \ {row}) \cup {NEWROW}, evals, comps, nf)

--------------------------------------------------------------------------
(* EvaluationService: each call is a lookup step, then a write step *)

Idle == [pc |-> "idle", op |-> "", id |-> 0, comp |-> 0, etu |-> "",
         note |-> 0, date_evaluation |-> "", saisie_par |-> "",
         commentaire |-> "", statut |-> "", seen |-> 0, left |-> 0,
         stale |-> FALSE, res |-> "", code_ue |-> "", classement |-> <<>>]

\* A call that has ended: what it wrote to (id), the version it had read
\* (seen), whether the row was written by another call in between (stale)
\* and how it ended (res).
Done(id, seen, stale, res) ==
  [Idle EXCEPT !.pc = "done", !.id = id, !.seen = seen, !.stale = stale,
               !.res = res]

Free(c) == calls[c].pc \in {"idle", "done"}

\* The other calls that hold a snapshot of row id have a stale one once the
\* row is written.
MarkStale(c, id, res) ==
  [d \in DOMAIN calls |->
     IF d # c /\ res = "ok" /\ calls[d].pc = "write" /\ calls[d].id = id
          /\ id # 0
     THEN [calls[d] EXCEPT !.stale = TRUE]
     ELSE calls[d]]

\* The version counters are cut off at MaxVersion.
WithinBounds(evals, nf) ==
  /\ \A e \in evals : e.version <= MaxVersion
  /\ \A r \in nf : r.version_calcul <= MaxVersion

\* createEvaluation up to the lookup of the existing row (lines 29-68), and
\* one item of createBatchEvaluations (lines 144-166).
LookupEntry(c, op, etu, cid, note, meta, left, authorized) ==
  LET composante == getComposante(composantes, cid)
      existing == findByEtudiantAndComposante(evaluations, etu, cid)
      fail(code) ==
        calls' = [calls EXCEPT ![c] =
                    IF left > 0
                    THEN [Idle EXCEPT !.pc = "next", !.op = op, !.comp = cid,
                                      !.date_evaluation = meta.date_evaluation,
                                      !.saisie_par = meta.saisie_par,
                                      !.left = left]
                    ELSE Done(0, 0, FALSE, code)]
  IN /\ IF composante = None THEN fail("COMPOSANTE_NOT_FOUND")
        ELSE IF etu \notin Students THEN fail("INVALID_ETUDIANT")
        ELSE IF ~authorized THEN fail("NOT_AUTHORIZED")
        ELSE IF note < 0 \/ note > composante.nb_points * 100
        THEN fail("INVALID_NOTE_RANGE")
        ELSE calls' = [calls EXCEPT ![c] =
               [Idle EXCEPT !.pc = "write", !.op = op, !.id = existing.id,
                            !.comp = cid, !.etu = etu, !.note = note,
                            !.date_evaluation = meta.date_evaluation,
                            !.saisie_par = meta.saisie_par,
                            !.commentaire = meta.commentaire,
                            !.left = left,
                            !.seen = IF existing = None THEN 0
                                     ELSE existing.version]]
     /\ UNCHANGED <<composantes, evaluations, notes_finales, ret, recaps,
                    classement, statistiques,
                    unites, authperms>>

createEvaluation_lookup(c, etu, cid, note, meta, authorized) ==
  /\ Free(c)
  /\ LookupEntry(c, "createEvaluation", etu, cid, note, meta, 0, authorized)

\* A patch that also rewrites the author.
UpdatePatchWithAuthor(k) ==
  [note |-> k.note, date_evaluation |-> k.date_evaluation,
   saisie_par |-> k.saisie_par, commentaire |-> k.commentaire,
   version |-> k.seen + 1]

\* The patch of the update of an existing entry (lines 72-77, 170-175).
UpdatePatch(k) ==
  [note |-> k.note, date_evaluation |-> k.date_evaluation,
   commentaire |-> k.commentaire, version |-> k.seen + 1]

\* createEvaluation from the lookup's result on (lines 70-93), and the same
\* in createBatchEvaluations (lines 168-190).
WriteEntry(c) ==
  LET k == calls[c]
      r == IF k.id # 0
           THEN EvaluationRepository_update(k.id, UpdatePatch(k),
                  evaluations, composantes, notes_finales)
           ELSE EvaluationRepository_create(
                  [matricule_etudiant |-> k.etu, composante_id |-> k.comp,
                   note |-> k.note, date_evaluation |-> k.date_evaluation,
                   saisie_par |-> k.saisie_par, commentaire |-> k.commentaire,
                   statut |-> "provisoire"],
                  evaluations, composantes, notes_finales)
  IN /\ WithinBounds(r.evals, r.nf)
     /\ evaluations' = r.evals
     /\ notes_finales' = r.nf
     /\ calls' = [MarkStale(c, k.id, r.res) EXCEPT ![c] =
                    IF k.left > 0
                    THEN [Idle EXCEPT !.pc = "next", !.op = k.op,
                                      !.comp = k.comp,
                                      !.date_evaluation = k.date_evaluation,
                                      !.saisie_par = k.saisie_par,
                                      !.left = k.left]
                    ELSE Done(k.id, k.seen, k.stale, r.res)]
     /\ UNCHANGED <<composantes, ret, recaps, classement, statistiques,
                    unites, authperms>>

createEvaluation_write(c) ==
  /\ calls[c].pc = "write"
  /\ calls[c].op = "createEvaluation"
  /\ WriteEntry(c)

\* The items one createBatchEvaluations call may carry.
MaxBatch == 2

\* createBatchEvaluations up to its loop (lines 115-139); n is the number of
\* items of data.evaluations.
createBatchEvaluations_begin(c, cid, n, meta, authorized) ==
  /\ Free(c)
  /\ calls' = [calls EXCEPT ![c] =
       IF getComposante(composantes, cid) = None
       THEN Done(0, 0, FALSE, "COMPOSANTE_NOT_FOUND")
       ELSE IF ~authorized THEN Done(0, 0, FALSE, "NOT_AUTHORIZED")
       ELSE [Idle EXCEPT !.pc = "next", !.op = "createBatchEvaluations",
                         !.comp = cid,
                         !.date_evaluation = meta.date_evaluation,
                         !.saisie_par = meta.saisie_par, !.left = n]]
  /\ UNCHANGED <<composantes, evaluations, notes_finales, ret, recaps,
                 classement, statistiques,
                 unites, authperms>>

\* One iteration of the loop up to the lookup (lines 142-166): a failed
\* check is caught (lines 192-198) and the loop goes on.
createBatchEvaluations_item(c, etu, note, commentaire) ==
  /\ calls[c].pc = "next"
  /\ LookupEntry(c, "createBatchEvaluations", etu, calls[c].comp, note,
                 [date_evaluation |-> calls[c].date_evaluation,
                  saisie_par |-> calls[c].saisie_par,
                  commentaire |-> commentaire],
                 calls[c].left - 1, TRUE)

\* The iteration's write (lines 168-190); after the last item the call
\* returns its counts (line 206).
createBatchEvaluations_write(c) ==
  /\ calls[c].pc = "write"
  /\ calls[c].op = "createBatchEvaluations"
  /\ WriteEntry(c)

\* validateEvaluation up to its write (lines 221-239).
validateEvaluation_lookup(c, id, canValidate) ==
  LET evaluation == findById(evaluations, id)
  IN /\ Free(c)
     /\ calls' = [calls EXCEPT ![c] =
          IF evaluation = None THEN Done(0, 0, FALSE, "EVALUATION_NOT_FOUND")
          ELSE IF evaluation.statut = "definitif"
          THEN Done(0, 0, FALSE, "ALREADY_VALIDATED")
          ELSE IF ~canValidate THEN Done(0, 0, FALSE, "NOT_AUTHORIZED")
          ELSE [Idle EXCEPT !.pc = "write", !.op = "validateEvaluation",
                            !.id = id, !.seen = evaluation.version]]
     /\ UNCHANGED <<composantes, evaluations, notes_finales, ret, recaps,
                    classement, statistiques,
                    unites, authperms>>

\* validateEvaluation's write (lines 241-247): the patch carries no version.
validateEvaluation_write(c) ==
  LET k == calls[c]
      r == EvaluationRepository_update(k.id, [statut |-> "definitif"],
             evaluations, composantes, notes_finales)
  IN /\ k.pc = "write"
     /\ k.op = "validateEvaluation"
     /\ WithinBounds(r.evals, r.nf)
     /\ evaluations' = r.evals
     /\ notes_finales' = r.nf
     /\ calls' = [MarkStale(c, k.id, r.res) EXCEPT ![c] =
                    Done(k.id, k.seen, k.stale, r.res)]
     /\ UNCHANGED <<composantes, ret, recaps, classement, statistiques,
                    unites, authperms>>

\* updateEvaluationStatus up to its write (lines 390-415).  No check reads
\* the row's current statut.
updateEvaluationStatus_lookup(c, id, statut, canUpdate, canSetRattrapage) ==
  LET evaluation == findById(evaluations, id)
  IN /\ Free(c)
     /\ calls' = [calls EXCEPT ![c] =
          IF evaluation = None THEN Done(0, 0, FALSE, "EVALUATION_NOT_FOUND")
          ELSE IF ~canUpdate THEN Done(0, 0, FALSE, "NOT_AUTHORIZED")
          ELSE IF statut = "rattrapage" /\ ~canSetRattrapage
          THEN Done(0, 0, FALSE, "CANNOT_SET_RATTRAPAGE")
          ELSE [Idle EXCEPT !.pc = "write", !.op = "updateEvaluationStatus",
                            !.id = id, !.statut = statut,
                            !.seen = evaluation.version]]
     /\ UNCHANGED <<composantes, evaluations, notes_finales, ret, recaps,
                    classement, statistiques,
                    unites, authperms>>

\* updateEvaluationStatus's write (lines 417-428).
updateEvaluationStatus_write(c) ==
  LET k == calls[c]
      r == EvaluationRepository_update(k.id,
             [statut |-> k.statut, version |-> k.seen + 1],
             evaluations, composantes, notes_finales)
  IN /\ k.pc = "write"
     /\ k.op = "updateEvaluationStatus"
     /\ WithinBounds(r.evals, r.nf)
     /\ evaluations' = r.evals
     /\ notes_finales' = r.nf
     /\ calls' = [MarkStale(c, k.id, r.res) EXCEPT ![c] =
                    Done(k.id, k.seen, k.stale, r.res)]
     /\ UNCHANGED <<composantes, ret, recaps, classement, statistiques,
                    unites, authperms>>

--------------------------------------------------------------------------
(* The ledger's specifications *)

\* The rows the migration inserts for the unit INF202 (lines 317-318).
SeedINF202 ==
  {[id |-> 1, code_ue |-> "INF202", type_composante |-> "CC",
    pourcentage |-> 4000, nb_points |-> 20],
   [id |-> 2, code_ue |-> "INF202", type_composante |-> "SN",
    pourcentage |-> 6000, nb_points |-> 20]}

\* The unit MAT201, seeded without components (line 306), after
\* addComposante gave it one component of 100 %.
OneComposante ==
  {[id |-> 1, code_ue |-> "MAT201", type_composante |-> "SN",
    pourcentage |-> 10000, nb_points |-> 20]}

CompIds == {c.id : c \in composantes} \cup {0}

EvalIds == {e.id : e \in evaluations} \cup {0}

Init ==
  /\ composantes = SeedINF202
  /\ evaluations = {}
  /\ notes_finales = {}
  /\ calls = [c \in {"w1"} |-> Idle]
  /\ ret = NoRet
  /\ recaps = {}
  /\ classement = <<>>
  /\ statistiques = {}
  /\ unites = SeedUnites
  /\ InitAuthPerms

InitConc ==
  /\ composantes = OneComposante
  /\ evaluations = {}
  /\ notes_finales = {}
  /\ calls = [c \in {"w1", "w2"} |-> Idle]
  /\ ret = NoRet
  /\ recaps = {}
  /\ classement = <<>>
  /\ statistiques = {}
  /\ unites = SeedUnites
  /\ InitAuthPerms

Next ==
  \/ \E c \in DOMAIN calls, etu \in Students \cup {"ETU0"}, cid \in CompIds,
        note \in Notes, authorized \in BOOLEAN :
       createEvaluation_lookup(c, etu, cid, note, FirstMeta, authorized)
  \/ \E c \in DOMAIN calls : createEvaluation_write(c)
  \/ \E c \in DOMAIN calls, cid \in CompIds, n \in 1..MaxBatch,
        authorized \in BOOLEAN :
       createBatchEvaluations_begin(c, cid, n, FirstMeta, authorized)
  \/ \E c \in DOMAIN calls, etu \in Students \cup {"ETU0"}, note \in Notes :
       createBatchEvaluations_item(c, etu, note, "")
  \/ \E c \in DOMAIN calls : createBatchEvaluations_write(c)
  \/ \E c \in DOMAIN calls, id \in EvalIds, canValidate \in BOOLEAN :
       validateEvaluation_lookup(c, id, canValidate)
  \/ \E c \in DOMAIN calls : validateEvaluation_write(c)
  \/ \E c \in DOMAIN calls, id \in EvalIds, statut \in Statuts,
        canUpdate \in BOOLEAN, canSetRattrapage \in BOOLEAN :
       updateEvaluationStatus_lookup(c, id, statut, canUpdate,
                                     canSetRattrapage)
  \/ \E c \in DOMAIN calls : updateEvaluationStatus_write(c)

Spec == Init /\ [][Next]_vars

SpecConc == InitConc /\ [][Next]_vars

--------------------------------------------------------------------------
(* Claims about the ledger *)

AllowedTransitions ==
  ({"en_attente", "provisoire"}
      \X {"provisoire", "definitif", "annule", "rattrapage"})
    \cup ({"definitif"} \X {"annule", "rattrapage"})
    \cup ({"rattrapage"} \X {"definitif", "annule"})

GradeIsCurrent(evals, comps, nf, etu, ue) ==
  LET rows == QualifyingRows(evals, comps, etu, ue)
  IN rows # {} =>
       \E r \in nf :
         /\ r.matricule_etudiant = etu
         /\ r.code_ue = ue
         /\ 10000 * r.note_finale - 5000 <= SumContributions(rows, comps)
         /\ SumContributions(rows, comps) < 10000 * r.note_finale + 5000

GradeInputs(evals, comps, etu, ue) ==
  {<<e.composante_id, e.note_sur_20>> :
     e \in QualifyingRows(evals, comps, etu, ue)}

\* The trigger ran for the row r's (student, unit) in this step: a row of
\* that pair was written with a statut definitif or rattrapage.
Recomputed(r) ==
  \E f \in evaluations' \ evaluations :
    /\ f.matricule_etudiant = r.matricule_etudiant
    /\ getComposante(composantes, f.composante_id).code_ue = r.code_ue
    /\ f.statut \in Qualifying

\* The row r is what the entries of evals give.
Fresh(r, evals, comps) ==
  LET raw == SumContributions(
               QualifyingRows(evals, comps, r.matricule_etudiant, r.code_ue),
               comps)
  IN /\ 10000 * r.note_finale - 5000 <= raw
     /\ raw < 10000 * r.note_finale + 5000

SecondRun(r, q) ==
  /\ q.matricule_etudiant = r.matricule_etudiant
  /\ q.code_ue = r.code_ue
  /\ Recomputed(r)
  /\ Fresh(r, evaluations, composantes)
  /\ composantes' = composantes
  /\ GradeInputs(evaluations', composantes', r.matricule_etudiant, r.code_ue)
       = GradeInputs(evaluations, composantes, r.matricule_etudiant, r.code_ue)

--------------------------------------------------------------------------
(* EvaluationService.getNoteFinaleUE, applied to ledgers drawn from a      *)
(* bounded set                                                             *)

\* calculateMention of EvaluationService; raw is in millionths of a point.
calculateMention(raw) ==
  IF raw >= 18000000 THEN "excellent"
  ELSE IF raw >= 16000000 THEN "tres-bien"
  ELSE IF raw >= 14000000 THEN "bien"
  ELSE IF raw >= 12000000 THEN "assez-bien"
  ELSE IF raw >= 10000000 THEN "passable"
  ELSE IF raw >= 5000000 THEN "echec"
  ELSE "elimine"

\* The loop of getNoteFinaleUE over the rows of findByEtudiantAndUE: the sum
\* of note_sur_20 * (pourcentage / 100) over the definitif and rattrapage
\* rows, in millionths of a point.
RECURSIVE noteFinaleLoop(_, _)
noteFinaleLoop(rows, comps) ==
  IF rows = {} THEN 0
  ELSE LET evalItem == CHOOSE x \in rows : TRUE
           contribution ==
             evalItem.note_sur_20
               * getComposante(comps, evalItem.composante_id).pourcentage
       IN (IF evalItem.statut = "definitif" \/ evalItem.statut = "rattrapage"
           THEN contribution ELSE 0)
            + noteFinaleLoop(rows \ {evalItem}, comps)

\* getNoteFinaleUE (lines 328-367): what it returns for (etu, ue).
getNoteFinaleUE(etu, ue) ==
  LET rows == {e \in evaluations :
                 /\ e.matricule_etudiant = etu
                 /\ getComposante(composantes, e.composante_id).code_ue = ue}
      noteFinale == noteFinaleLoop(rows, composantes)
  IN /\ ret' = [op |-> "getNoteFinaleUE", res |-> "ok",
                note_finale |-> MathRound(noteFinale, 10000),
                est_capitalisee |-> (noteFinale >= 10000000),
                mention |-> calculateMention(noteFinale),
                details |-> Cardinality({e \in rows : e.statut \in Qualifying}),
                result |-> NoResult]
     /\ UNCHANGED <<composantes, evaluations, notes_finales, calls, recaps,
                    classement, statistiques,
                    unites, authperms>>

\* Weight pairs of a unit with the components CC and SN, in hundredths of a
\* percent.
GradeWeights == {3000, 4000, 5000}

\* Marks on 20 of the drawn entries, in hundredths of a point.
GradeMarks == {0, 1200, 1205, 1400, 1999, 2000}

ConfigCCSN(p) ==
  {[id |-> 1, code_ue |-> "INF202", type_composante |-> "CC",
    pourcentage |-> p, nb_points |-> 20],
   [id |-> 2, code_ue |-> "INF202", type_composante |-> "SN",
    pourcentage |-> 10000 - p, nb_points |-> 20]}

EntryFor(id, cid, note, statut) ==
  [id |-> id, matricule_etudiant |-> "ETU1", composante_id |-> cid,
   note |-> note, note_sur_20 |-> note_sur_20(note, 20),
   date_evaluation |-> "2024-01-15", saisie_par |-> "ENS20230001",
   commentaire |-> "", statut |-> statut, version |-> 1]

\* The ledgers drawn: for each of the two components no entry or one entry;
\* the final-grade table is what the trigger left, so a ledger whose last
\* trigger run would have been refused is left out.
InitGrade ==
  /\ \E p \in GradeWeights : composantes = ConfigCCSN(p)
  /\ \E e1 \in {None} \cup {EntryFor(1, 1, n, st) : n \in GradeMarks, st \in Statuts} :
     \E e2 \in {None} \cup {EntryFor(2, 2, n, st) : n \in GradeMarks, st \in Statuts} :
       evaluations = {e1, e2} \ {None}
  /\ LET rows == QualifyingRows(evaluations, composantes, "ETU1", "INF202")
     IN IF rows = {} THEN notes_finales = {}
        ELSE LET t == update_note_finale_ue(CHOOSE e \in rows : TRUE,
                                            evaluations, composantes, {})
             IN t.ok /\ notes_finales = t.nf
  /\ calls = [c \in {"w1"} |-> Idle]
  /\ ret = NoRet
  /\ recaps = {}
  /\ classement = <<>>
  /\ statistiques = {}
  /\ unites = SeedUnites
  /\ InitAuthPerms

NextGrade == getNoteFinaleUE("ETU1", "INF202")

SpecGrade == InitGrade /\ [][NextGrade]_vars

\* n / d rounded to the nearest integer, a half going away from zero
\* (n >= 0, d > 0).
RoundHalfAway(n, d) ==
  LET q == n \div d
      r == n % d
  IN IF 2 * r >= d THEN q + 1 ELSE q

\* The weighted sum the grade is made of, in millionths of a point.
RECURSIVE WeightedSum(_)
WeightedSum(rows) ==
  IF rows = {} THEN 0
  ELSE LET e == CHOOSE x \in rows : TRUE
       IN e.note_sur_20
            * (CHOOSE c \in composantes : c.id = e.composante_id).pourcentage
            + WeightedSum(rows \ {e})

FinalOrRetake ==
  {e \in evaluations : e.statut = "definitif" \/ e.statut = "rattrapage"}

C7_ExampleLedger ==
  /\ composantes = ConfigCCSN(3000)
  /\ evaluations = {EntryFor(1, 1, 1200, "definitif"),
                    EntryFor(2, 2, 1400, "definitif")}

\* The returned grade is the weighted sum over the final and retake
\* entries, rounded to two decimals, a half going away from zero.
C7_GradeIsRoundedSum ==
  ret.op = "getNoteFinaleUE" =>
    ret.note_finale = RoundHalfAway(WeightedSum(FinalOrRetake), 10000)

--------------------------------------------------------------------------
(* UEService.addComposante and updateComposante over the component table   *)
(* and its trigger trg_check_ue_percentage                                 *)

\* Units of the seed: INF202 with CC 40 % and SN 60 %, MAT201 without
\* components; NOUE is a code no unit has.
UECodes == {"INF202", "MAT201"}
TypeComposantes == {"CC", "SN", "TP"}

\* Weights and point scales the calls are made with (10001 and 101 are out
\* of range; 0 points stands for a call that gives none).
Pourcentages == {0, 1, 4000, 6000, 10000, 10001}
NbPoints == {0, 10, 20, 101}

\* Rows the component table may hold.
MaxComposantes == 3

RECURSIVE SumPourcentage(_)
SumPourcentage(rows) ==
  IF rows = {} THEN 0
  ELSE LET r == CHOOSE x \in rows : TRUE
       IN r.pourcentage + SumPourcentage(rows \ {r})

\* check_ue_percentage_total, for the unit the trigger looks at (NEW.code_ue
\* on INSERT, OLD.code_ue otherwise): TRUE when it does not raise.
check_ue_percentage_total(ue_code, comps) ==
  LET rows == {c \in comps : c.code_ue = ue_code}
      total_percentage == SumPourcentage(rows)
      diff == IF total_percentage >= 10000 THEN total_percentage - 10000
              ELSE 10000 - total_percentage
  IN rows = {} \/ ~(diff > 1)

\* UNIQUE (code_ue, type_composante) of composantes_evaluation.
uq_ue_composante(comps) ==
  \A a, b \in comps :
    (a.code_ue = b.code_ue /\ a.type_composante = b.type_composante) => a = b

Returns(op, res) == [NoRet EXCEPT !.op = op, !.res = res]

\* ComposanteRepository.create: the INSERT with its row trigger.
ComposanteRepository_create(row, comps) ==
  LET ids == {c.id : c \in comps}
      newid == IF ids = {} THEN 1 ELSE (CHOOSE m \in ids : \A i \in ids : i <= m) + 1
      comps2 == comps \cup {[row EXCEPT !.id = newid]}
  IN IF uq_ue_composante(comps2) /\ check_ue_percentage_total(row.code_ue, comps2)
     THEN [res |-> "ok", comps |-> comps2]
     ELSE [res |-> "DB_ERROR", comps |-> comps]

\* ComposanteRepository.update: SET of the fields the patch carries, with
\* the row trigger looking at OLD.code_ue.
ComposanteRepository_update(id, patch, comps) ==
  LET old == CHOOSE c \in comps : c.id = id
      new == [k \in DOMAIN old |-> IF k \in DOMAIN patch THEN patch[k] ELSE old[k]]
      comps2 == (comps \ {old}) \cup {new}
  IN IF uq_ue_composante(comps2) /\ check_ue_percentage_total(old.code_ue, comps2)
     THEN [res |-> "ok", comps |-> comps2]
     ELSE [res |-> "DB_ERROR", comps |-> comps]

addComposante(codeUE, type, pourcentage, nb_points) ==
  LET nbPoints == IF nb_points = 0 THEN 20 ELSE nb_points
      w == ComposanteRepository_create(
             [id |-> 0, code_ue |-> codeUE, type_composante |-> type,
              pourcentage |-> pourcentage, nb_points |-> nbPoints], composantes)
      res == IF UERepository_findByCode(unites, codeUE) = None THEN "UE_NOT_FOUND"
             ELSE IF \E c \in composantes :
                       c.code_ue = codeUE /\ c.type_composante = type
               THEN "COMPOSANTE_EXISTS"
             ELSE IF pourcentage < 0 \/ pourcentage > 10000 THEN "INVALID_PERCENTAGE"
             ELSE IF nbPoints <= 0 \/ nbPoints > 100 THEN "INVALID_POINTS"
             ELSE w.res
  IN /\ Cardinality(composantes) < MaxComposantes
     /\ composantes' = IF res = "ok" THEN w.comps ELSE composantes
     /\ ret' = Returns("addComposante", res)
     /\ UNCHANGED <<evaluations, notes_finales, calls, recaps, classement, statistiques,
                    unites, authperms>>

updateComposante(composanteId, data) ==
  LET w == ComposanteRepository_update(composanteId, data, composantes)
      res == IF ~(\E c \in composantes : c.id = composanteId)
               THEN "COMPOSANTE_NOT_FOUND"
             ELSE IF "pourcentage" \in DOMAIN data
                     /\ (data.pourcentage < 0 \/ data.pourcentage > 10000)
               THEN "INVALID_PERCENTAGE"
             ELSE IF "nb_points" \in DOMAIN data
                     /\ (data.nb_points <= 0 \/ data.nb_points > 100)
               THEN "INVALID_POINTS"
             ELSE w.res
  IN /\ composantes' = IF res = "ok" THEN w.comps ELSE composantes
     /\ ret' = Returns("updateComposante", res)
     /\ UNCHANGED <<evaluations, notes_finales, calls, recaps, classement, statistiques,
                    unites, authperms>>

InitUE ==
  /\ composantes = SeedINF202
  /\ evaluations = {}
  /\ notes_finales = {}
  /\ calls = [c \in {"w1"} |-> Idle]
  /\ ret = NoRet
  /\ recaps = {}
  /\ classement = <<>>
  /\ statistiques = {}
  /\ unites = SeedUnites
  /\ InitAuthPerms

NextUE ==
  \/ \E codeUE \in UECodes \cup {"NOUE"}, type \in TypeComposantes,
        pourcentage \in Pourcentages, nb_points \in NbPoints :
       addComposante(codeUE, type, pourcentage, nb_points)
  \/ \E id \in 1..(MaxComposantes + 1) :
       \/ \E p \in Pourcentages : updateComposante(id, [pourcentage |-> p])
       \/ \E n \in NbPoints : updateComposante(id, [nb_points |-> n])
       \/ \E u \in UECodes : updateComposante(id, [code_ue |-> u])

SpecUE == InitUE /\ [][NextUE]_vars

\* C9: every unit that has a component has weights summing to within 0.01
\* of 100, whatever addComposante and updateComposante calls were made.
C9_WeightsSumTo100 ==
  \A ue \in UECodes :
    LET rows == {c \in composantes : c.code_ue = ue}
    IN rows # {} =>
         /\ SumPourcentage(rows) >= 9999
         /\ SumPourcentage(rows) <= 10001

--------------------------------------------------------------------------
(* CalculService.calculerClassementNiveau over the recaps of one level     *)

RankStudents == {"ETU1", "ETU2", "ETU3"}

\* Averages of the drawn recaps, in hundredths of a point.
Moyennes == {1200, 1500}

\* The comparator handed to sort (lines 220-226).
compareRecaps(a, b) ==
  IF b.moyenne_generale = a.moyenne_generale
  THEN b.moyenne_ponderee - a.moyenne_ponderee
  ELSE b.moyenne_generale - a.moyenne_generale

\* x put into the sorted sequence s behind every element that does not
\* compare after it.
RECURSIVE InsertSorted(_, _)
InsertSorted(s, x) ==
  IF s = <<>> THEN <<x>>
  ELSE IF compareRecaps(Head(s), x) <= 0 THEN <<Head(s)>> \o InsertSorted(Tail(s), x)
  ELSE <<x>> \o s

\* [...recaps].sort(comparator): Array.prototype.sort is stable.
RECURSIVE sortedRecaps(_)
sortedRecaps(s) ==
  IF s = <<>> THEN <<>>
  ELSE InsertSorted(sortedRecaps(SubSeq(s, 1, Len(s) - 1)), s[Len(s)])

\* A rank shared by the students who compare equal.
rangShared(sorted, i) ==
  1 + Cardinality({j \in 1..Len(sorted) : compareRecaps(sorted[j], sorted[i]) < 0})

\* rang: i + 1 (line 236; i counts from 0 there, from 1 here).
rang(sorted, i) == i

\* The orders in which getRecapsByNiveau may return the rows.
StoreOrders(rows) ==
  {f \in [1..Cardinality(rows) -> rows] : \A i, j \in DOMAIN f : f[i] = f[j] => i = j}

\* CalculRepository.updateRangs: each recap gets the rank of its line; a
\* recap that has no line keeps its rank.
updateRangs(rows, cl) ==
  {IF \E i \in DOMAIN cl : cl[i].matricule = r.matricule_etudiant
   THEN [r EXCEPT !.rang =
           cl[CHOOSE i \in DOMAIN cl : cl[i].matricule = r.matricule_etudiant].rang]
   ELSE r : r \in rows}

calculerClassementNiveau ==
  IF recaps = {}
  THEN /\ ret' = Returns("calculerClassementNiveau", "NO_STUDENTS_FOUND")
       /\ UNCHANGED <<composantes, evaluations, notes_finales, calls, recaps,
                      classement, statistiques,
                      unites, authperms>>
  ELSE \E order \in StoreOrders(recaps) :
         LET sorted == sortedRecaps(order)
             cl == [i \in DOMAIN sorted |->
                      [rang |-> rang(sorted, i),
                       matricule |-> sorted[i].matricule_etudiant,
                       moyenne_generale |-> sorted[i].moyenne_generale]]
         IN /\ classement' = cl
            /\ recaps' = updateRangs(recaps, cl)
            /\ ret' = Returns("calculerClassementNiveau", "ok")
            /\ UNCHANGED <<composantes, evaluations, notes_finales, calls,
                           statistiques,
                           unites, authperms>>

\* The recaps of a level: any non-ranked recaps of up to three students.
InitRank ==
  /\ composantes = SeedINF202
  /\ evaluations = {}
  /\ notes_finales = {}
  /\ calls = [c \in {"w1"} |-> Idle]
  /\ ret = NoRet
  /\ classement = <<>>
  /\ statistiques = {}
  /\ unites = SeedUnites
  /\ InitAuthPerms
  /\ \E who \in SUBSET RankStudents :
     \E mg \in [who -> Moyennes], mp \in [who -> Moyennes] :
       recaps = {[matricule_etudiant |-> m, moyenne_generale |-> mg[m],
                  moyenne_ponderee |-> mp[m], rang |-> 0] : m \in who}

NextRank == calculerClassementNiveau

SpecRank == InitRank /\ [][NextRank]_vars

Ranked == ret.op = "calculerClassementNiveau" /\ ret.res = "ok"

\* Averages [15.0, 15.0, 12.0]: ETU1 and ETU2 tie on both averages.
C10_ExampleRecaps ==
  /\ Cardinality(recaps) = 3
  /\ \A r \in recaps :
       /\ r.moyenne_ponderee = r.moyenne_generale
       /\ r.moyenne_generale =
            (IF r.matricule_etudiant = "ETU3" THEN 1200 ELSE 1500)

\* C10: after a ranking of N >= 1 recaps the ranks are exactly 1..N, one
\* per student, ties included; for averages [15.0, 15.0, 12.0] the tied
\* students hold ranks 1 and 2 and the third holds rank 3.
C10_RanksAreOneToN ==
  Ranked =>
    /\ {r.rang : r \in recaps} = 1..Cardinality(recaps)
    /\ \A a, b \in recaps : a.rang = b.rang => a = b
    /\ Len(classement) = Cardinality(recaps)
    /\ {classement[i].rang : i \in DOMAIN classement} = 1..Cardinality(recaps)
    /\ \A i, j \in DOMAIN classement :
         classement[i].rang = classement[j].rang => i = j
    /\ C10_ExampleRecaps =>
         /\ {r.rang : r \in {x \in recaps : x.moyenne_generale = 1500}} = {1, 2}
         /\ \A r \in recaps : r.moyenne_generale = 1200 => r.rang = 3

\* The example has been ranked.
C10_Witness ==
  /\ Ranked
  /\ C10_ExampleRecaps
  /\ Len(classement) = 3

\* C11: the ranking is a total order (unweighted average, then weighted
\* average, then student identifier), so a second run over the same recaps
\* gives every student the rank the first run gave, whatever order the
\* store returns the rows in.
C11_SameRanksWhateverOrder ==
  [][(Ranked /\ Ranked') => recaps' = recaps]_vars

--------------------------------------------------------------------------
(* CalculService.calculerMoyennesEtudiant over the final grades of one     *)
(* student in the units of level L2                                        *)

\* The units the seed gives level L2, with their credits.
UEsNiveau ==
  {[code_ue |-> "INF201", credits_ects |-> 5],
   [code_ue |-> "INF202", credits_ects |-> 6],
   [code_ue |-> "INF203", credits_ects |-> 4],
   [code_ue |-> "MAT201", credits_ects |-> 5]}

\* CalculRepository.getNoteFinaleUE: the stored final grade of the student
\* in the unit, as a number; 0 when no row is stored.
CalculRepository_getNoteFinaleUE(nf, etu, ue) ==
  LET rows == {r \in nf : r.matricule_etudiant = etu /\ r.code_ue = ue}
  IN IF rows = {} THEN 0 ELSE (CHOOSE r \in rows : TRUE).note_finale

\* The credits summed over the units that have a stored final grade.
totalCreditsEvalues(ues) ==
  LET graded == {u \in ues : \E r \in notes_finales : r.code_ue = u.code_ue}
      Sum[S \in SUBSET graded] ==
        IF S = {} THEN 0
        ELSE LET u == CHOOSE x \in S : TRUE
             IN u.credits_ects + Sum[S \ {u}]
  IN Sum[graded]

\* totalCredits after the loop (line 80): the credits of every unit.
totalCredits(ues) ==
  LET Sum[S \in SUBSET ues] ==
        IF S = {} THEN 0
        ELSE LET u == CHOOSE x \in S : TRUE
             IN u.credits_ects + Sum[S \ {u}]
  IN Sum[ues]

\* The sums of the loop over the units (lines 61-89).
RECURSIVE boucleUEs(_, _, _)
boucleUEs(ues, nf, etu) ==
  IF ues = {}
  THEN [creditsObtenus |-> 0, sommeMoyennes |-> 0,
        sommeMoyennesPonderees |-> 0, ueCapitalisees |-> 0,
        capitalisees |-> {}]
  ELSE LET ue == CHOOSE x \in ues : TRUE
           noteFinale == CalculRepository_getNoteFinaleUE(nf, etu, ue.code_ue)
           estCapitalisee == noteFinale >= 1000
           rest == boucleUEs(ues \ {ue}, nf, etu)
       IN [creditsObtenus |-> rest.creditsObtenus
                                + (IF estCapitalisee THEN ue.credits_ects ELSE 0),
           sommeMoyennes |-> rest.sommeMoyennes + noteFinale,
           sommeMoyennesPonderees |-> rest.sommeMoyennesPonderees
                                        + noteFinale * ue.credits_ects,
           ueCapitalisees |-> rest.ueCapitalisees
                                + (IF estCapitalisee THEN 1 ELSE 0),
           capitalisees |-> rest.capitalisees
                              \cup (IF estCapitalisee THEN {ue.code_ue} ELSE {})]

\* The CalculResult of lines 92-109.
CalculResult(etu, ues, nf) ==
  LET b == boucleUEs(ues, nf, etu)
      n == Cardinality(ues)
      total == totalCredits(ues)
  IN [NoResult EXCEPT
        !.moyenne_generale = IF n > 0 THEN MathRound(b.sommeMoyennes, n) ELSE 0,
        !.moyenne_ponderee =
           IF total > 0 THEN MathRound(b.sommeMoyennesPonderees, total) ELSE 0,
        !.pourcentage_capitalisation =
           IF total > 0 THEN MathRound(b.creditsObtenus * 10000, total) ELSE 0,
        !.ue_capitalisees = b.ueCapitalisees,
        !.ue_total = n,
        !.credits_obtenus = b.creditsObtenus,
        !.credits_total = total,
        !.capitalisees = b.capitalisees]

\* CalculRepository.updateRecapEtudiant: the student's recap row is
\* replaced by the result; its rang is kept.
updateRecapEtudiant(rows, etu, result) ==
  LET old == {r \in rows : r.matricule_etudiant = etu}
  IN (rows \ old) \cup
       {[matricule_etudiant |-> etu,
         moyenne_generale |-> result.moyenne_generale,
         moyenne_ponderee |-> result.moyenne_ponderee,
         pourcentage_capitalisation |-> result.pourcentage_capitalisation,
         ue_capitalisees |-> result.ue_capitalisees,
         ue_total |-> result.ue_total,
         credits_obtenus |-> result.credits_obtenus,
         credits_total |-> result.credits_total,
         rang |-> IF old = {} THEN 0 ELSE (CHOOSE r \in old : TRUE).rang]}

\* CalculRepository.getUEsByNiveau: the seeded units all belong to level L2.
getUEsByNiveau(niveau) == IF niveau = "L2" THEN UEsNiveau ELSE {}

calculerMoyennesEtudiantNiveau(etu, niveau) ==
  IF etu \notin Students
  THEN /\ ret' = Returns("calculerMoyennesEtudiant", "ETUDIANT_INVALIDE")
       /\ UNCHANGED <<composantes, evaluations, notes_finales, calls, recaps,
                      classement, statistiques,
                      unites, authperms>>
  ELSE IF getUEsByNiveau(niveau) = {}
  THEN /\ ret' = Returns("calculerMoyennesEtudiant", "NO_UE_FOUND")
       /\ UNCHANGED <<composantes, evaluations, notes_finales, calls, recaps,
                      classement, statistiques,
                      unites, authperms>>
  ELSE LET result == CalculResult(etu, getUEsByNiveau(niveau), notes_finales)
       IN /\ recaps' = updateRecapEtudiant(recaps, etu, result)
          /\ ret' = [Returns("calculerMoyennesEtudiant", "ok")
                       EXCEPT !.result = result]
          /\ UNCHANGED <<composantes, evaluations, notes_finales, calls,
                         classement, statistiques,
                         unites, authperms>>

\* The call for the level of the seeded units.
calculerMoyennesEtudiant(etu) == calculerMoyennesEtudiantNiveau(etu, "L2")

\* Weighted sums (millionths of a point) the trigger may have computed for
\* a unit: 8.00 and 12.00.
RecapSums == {8000000, 12000000}

\* The INSERT ... ON CONFLICT of update_note_finale_ue (lines 277-287) for
\* the student's grade in one unit, the ledger giving the weighted sum raw.
StoreNoteFinale(etu, ue, raw) ==
  LET old == {r \in notes_finales :
                r.matricule_etudiant = etu /\ r.code_ue = ue}
      row == [matricule_etudiant |-> etu, code_ue |-> ue,
              note_finale |-> NumericRound(raw, 10000),
              est_capitalisee |-> (raw >= 10000000),
              mention |-> TriggerMention(raw),
              version_calcul |-> IF old = {} THEN 1
                                 ELSE UpsertVersion(CHOOSE r \in old : TRUE)]
  IN /\ row.version_calcul <= MaxVersion
     /\ note_finale_check(row.note_finale)
     /\ row.mention \in MentionsAllowed
     /\ notes_finales' = (notes_finales \ old) \cup {row}
     /\ UNCHANGED <<composantes, evaluations, calls, ret, recaps, classement,
                    statistiques,
                    unites, authperms>>

InitRecap ==
  /\ composantes = SeedINF202
  /\ evaluations = {}
  /\ notes_finales = {}
  /\ calls = [c \in {"w1"} |-> Idle]
  /\ ret = NoRet
  /\ recaps = {}
  /\ classement = <<>>
  /\ statistiques = {}
  /\ unites = SeedUnites
  /\ InitAuthPerms

NextRecap ==
  \/ \E etu \in Students \cup {"ETU0"} : calculerMoyennesEtudiant(etu)
  \/ \E u \in UEsNiveau, raw \in RecapSums :
       StoreNoteFinale("ETU1", u.code_ue, raw)

SpecRecap == InitRecap /\ [][NextRecap]_vars

\* A calculerMoyennesEtudiant call that returned a result.
RecapReturned(r) == r.op = "calculerMoyennesEtudiant" /\ r.res = "ok"

\* A step that is such a call.
RecapStep == RecapReturned(ret') /\ notes_finales' = notes_finales

\* The units of the level in which ETU1 has a stored final grade.
PresentUEs ==
  {u \in UEsNiveau :
     \E r \in notes_finales :
       r.matricule_etudiant = "ETU1" /\ r.code_ue = u.code_ue}

StoredGrade(u) ==
  (CHOOSE r \in notes_finales :
     r.matricule_etudiant = "ETU1" /\ r.code_ue = u.code_ue).note_finale

RECURSIVE SumGrades(_)
SumGrades(S) ==
  IF S = {} THEN 0
  ELSE LET u == CHOOSE x \in S : TRUE
       IN StoredGrade(u) + SumGrades(S \ {u})

RECURSIVE SumGradeCredits(_)
SumGradeCredits(S) ==
  IF S = {} THEN 0
  ELSE LET u == CHOOSE x \in S : TRUE
       IN StoredGrade(u) * u.credits_ects + SumGradeCredits(S \ {u})

RECURSIVE SumCredits(_)
SumCredits(S) ==
  IF S = {} THEN 0
  ELSE LET u == CHOOSE x \in S : TRUE
       IN u.credits_ects + SumCredits(S \ {u})

\* C12: a unit without final grade is left out of both averages and counted
\* in ue_total: the unweighted average is the mean of the present grades,
\* the weighted one is sum(grade * credits) / sum(credits) over the units
\* with a present grade.
C12_AveragesOverPresentGrades ==
  [][RecapStep =>
       /\ ret'.result.ue_total = Cardinality(UEsNiveau)
       /\ PresentUEs # {} =>
            /\ ret'.result.moyenne_generale =
                 RoundHalfAway(SumGrades(PresentUEs), Cardinality(PresentUEs))
            /\ ret'.result.moyenne_ponderee =
                 RoundHalfAway(SumGradeCredits(PresentUEs),
                               SumCredits(PresentUEs))]_vars

\* The units in which ETU1's stored final grade is at least 10.
CapitalizedUEs == {u \in PresentUEs : StoredGrade(u) >= 1000}

--------------------------------------------------------------------------
(* CalculService.verifierEligibiliteDeliberation                           *)

\* The deliberation parameters a level may have, in hundredths of a percent
\* and in units.
ParamsDeliberation ==
  [min_capitalisation : {5000, 8000}, max_ue_non_capitalisees : {0, 2},
   found : {TRUE}]

\* Eligible as soon as one criterion is met.
eligibleSiUnCritere(critere1, critere2) ==
  critere1.respecte \/ critere2.respecte

\* const eligible = critere1.respecte && critere2.respecte (line 324).
eligible(critere1, critere2) == critere1.respecte /\ critere2.respecte

verifierEligibiliteDeliberation(etu, params) ==
  IF ~params.found
  THEN /\ ret' = Returns("verifierEligibiliteDeliberation", "PARAMS_NOT_FOUND")
       /\ UNCHANGED <<composantes, evaluations, notes_finales, calls, recaps,
                      classement, statistiques,
                      unites, authperms>>
  ELSE IF etu \notin Students
  THEN /\ ret' = Returns("verifierEligibiliteDeliberation", "ETUDIANT_INVALIDE")
       /\ UNCHANGED <<composantes, evaluations, notes_finales, calls, recaps,
                      classement, statistiques,
                      unites, authperms>>
  ELSE LET stats == CalculResult(etu, UEsNiveau, notes_finales)
           critere1 ==
             [critere |-> "Pourcentage de capitalisation",
              valeur |-> stats.pourcentage_capitalisation,
              seuil |-> params.min_capitalisation,
              respecte |-> stats.pourcentage_capitalisation
                             >= params.min_capitalisation]
           ueNonCapitalisees == stats.ue_total - stats.ue_capitalisees
           critere2 ==
             [critere |-> "UE non capitalisees",
              valeur |-> ueNonCapitalisees,
              seuil |-> params.max_ue_non_capitalisees,
              respecte |-> ueNonCapitalisees <= params.max_ue_non_capitalisees]
       IN /\ recaps' = updateRecapEtudiant(recaps, etu, stats)
          /\ ret' = [Returns("verifierEligibiliteDeliberation", "ok")
                       EXCEPT !.result =
                         [stats EXCEPT !.eligible = eligible(critere1, critere2),
                                       !.criteres = <<critere1, critere2>>,
                                       !.params = params]]
          /\ UNCHANGED <<composantes, evaluations, notes_finales, calls,
                         classement, statistiques,
                         unites, authperms>>

\* The student's final grades: in each unit of the level none, or the row
\* the trigger stored for a weighted sum of RecapSums.
InitElig ==
  /\ composantes = SeedINF202
  /\ evaluations = {}
  /\ \E g \in [{u.code_ue : u \in UEsNiveau} -> RecapSums \cup {0}] :
       notes_finales =
         {[matricule_etudiant |-> "ETU1", code_ue |-> ue,
           note_finale |-> NumericRound(g[ue], 10000),
           est_capitalisee |-> (g[ue] >= 10000000),
           mention |-> TriggerMention(g[ue]),
           version_calcul |-> 1] : ue \in {x \in DOMAIN g : g[x] # 0}}
  /\ calls = [c \in {"w1"} |-> Idle]
  /\ ret = NoRet
  /\ recaps = {}
  /\ classement = <<>>
  /\ statistiques = {}
  /\ unites = SeedUnites
  /\ InitAuthPerms

NextElig ==
  \E etu \in Students \cup {"ETU0"}, params \in ParamsDeliberation \cup {NoParams} :
    verifierEligibiliteDeliberation(etu, params)

SpecElig == InitElig /\ [][NextElig]_vars

EligReturned == ret.op = "verifierEligibiliteDeliberation" /\ ret.res = "ok"

\* Params {minCapitalization 80, maxNonCapitalized 2} and a recap with a
\* capitalization of 75 % and one unit not capitalized.
C14_Example ==
  /\ ret.result.params.min_capitalisation = 8000
  /\ ret.result.params.max_ue_non_capitalisees = 2
  /\ \E r \in recaps :
       /\ r.pourcentage_capitalisation = 7500
       /\ r.ue_total - r.ue_capitalisees = 1

--------------------------------------------------------------------------
(* CalculService.calculerStatistiquesUE over the final grades of one unit  *)

StatStudents == {"ETU1", "ETU2", "ETU3", "ETU4", "ETU5", "ETU6", "ETU7"}

\* Two weighted sums (millionths of a point) per student; the first ones
\* are stored as the grades 8, 10, 12, 14, 16, 18 and 20.
StatSums ==
  [ETU1 |-> <<8000000, 9995000>>, ETU2 |-> <<10000000, 5550000>>,
   ETU3 |-> <<12000000, 12340000>>, ETU4 |-> <<13995000, 690000>>,
   ETU5 |-> <<16000000, 19990000>>, ETU6 |-> <<18000000, 10010000>>,
   ETU7 |-> <<20000000, 7770000>>]

\* [...notes].sort((a, b) => a - b): the grades of the rows, ascending.
RECURSIVE sortedNotes(_)
sortedNotes(rows) ==
  IF rows = {} THEN <<>>
  ELSE LET m == CHOOSE r \in rows : \A q \in rows : r.note_finale <= q.note_finale
       IN <<m.note_finale>> \o sortedNotes(rows \ {m})

\* The element at the floor of the index, without interpolation.
percentileNearestRank(sortedArray, percentile) ==
  100 * sortedArray[((percentile * (Len(sortedArray) - 1)) \div 100) + 1]

\* calculatePercentile, times 100 (the weight is a number of hundredths);
\* the array is indexed from 1 here.
calculatePercentile(sortedArray, percentile) ==
  LET index100 == percentile * (Len(sortedArray) - 1)
      lower == index100 \div 100
      upper == IF index100 % 100 = 0 THEN lower ELSE lower + 1
      weight == index100 % 100
  IN IF lower = upper THEN 100 * sortedArray[lower + 1]
     ELSE sortedArray[lower + 1] * (100 - weight) + sortedArray[upper + 1] * weight

RECURSIVE SumSeq(_)
SumSeq(s) == IF s = <<>> THEN 0 ELSE Head(s) + SumSeq(Tail(s))

\* Math.round(Math.sqrt(variance) * 100) / 100, the variance being
\* sum((n * x - sum)^2) / n^3 in squared hundredths.
ecartType(notes) ==
  LET n == Len(notes)
      s == SumSeq(notes)
      sq == [i \in 1..n |-> (n * notes[i] - s) * (n * notes[i] - s)]
      a == SumSeq(sq)
      b == n * n * n
  IN CHOOSE r \in 0..1000 :
       /\ (2 * r - 1) * (2 * r - 1) * b <= 4 * a \/ r = 0
       /\ 4 * a < (2 * r + 1) * (2 * r + 1) * b

\* The StatistiquesUE of lines 166-182.
StatistiquesUE(codeUE, rows) ==
  LET sorted == sortedNotes(rows)
      nbEtudiants == Len(sorted)
      nbReussite == Cardinality({r \in rows : r.note_finale >= 1000})
  IN [code_ue |-> codeUE,
      nb_etudiants |-> nbEtudiants,
      moyenne_ue |-> MathRound(SumSeq(sorted), nbEtudiants),
      ecart_type |-> ecartType(sorted),
      note_min |-> sorted[1],
      note_max |-> sorted[nbEtudiants],
      q1 |-> MathRound(calculatePercentile(sorted, 25), 100),
      mediane |-> MathRound(calculatePercentile(sorted, 50), 100),
      q3 |-> MathRound(calculatePercentile(sorted, 75), 100),
      nb_reussite |-> nbReussite,
      nb_echec |-> nbEtudiants - nbReussite,
      taux_reussite |-> MathRound(nbReussite * 10000, nbEtudiants)]

\* CalculRepository.saveStatistiquesUE: the unit's row is replaced.
saveStatistiquesUE(rows, st) ==
  {r \in rows : r.code_ue # st.code_ue} \cup {st}

calculerStatistiquesUE(codeUE) ==
  LET notesFinales == {r \in notes_finales : r.code_ue = codeUE}
  IN IF notesFinales = {}
     THEN /\ ret' = Returns("calculerStatistiquesUE", "NO_GRADES_FOUND")
          /\ UNCHANGED <<composantes, evaluations, notes_finales, calls,
                         recaps, classement, statistiques,
                         unites, authperms>>
     ELSE /\ statistiques' =
               saveStatistiquesUE(statistiques,
                                  StatistiquesUE(codeUE, notesFinales))
          /\ ret' = Returns("calculerStatistiquesUE", "ok")
          /\ UNCHANGED <<composantes, evaluations, notes_finales, calls,
                         recaps, classement,
                         unites, authperms>>

\* The final grades of INF202: for each student no row, or the row the
\* trigger stored for one of the student's two sums.
InitStats ==
  /\ composantes = SeedINF202
  /\ evaluations = {}
  /\ \E pick \in [StatStudents -> 0..2] :
       notes_finales =
         {[matricule_etudiant |-> m, code_ue |-> "INF202",
           note_finale |-> NumericRound(StatSums[m][pick[m]], 10000),
           est_capitalisee |-> (StatSums[m][pick[m]] >= 10000000),
           mention |-> TriggerMention(StatSums[m][pick[m]]),
           version_calcul |-> 1] : m \in {x \in StatStudents : pick[x] # 0}}
  /\ \A r \in notes_finales : r.mention \in MentionsAllowed
  /\ calls = [c \in {"w1"} |-> Idle]
  /\ ret = NoRet
  /\ recaps = {}
  /\ classement = <<>>
  /\ statistiques = {}
  /\ unites = SeedUnites
  /\ InitAuthPerms

NextStats == \E codeUE \in {"INF202", "MAT201"} : calculerStatistiquesUE(codeUE)

SpecStats == InitStats /\ [][NextStats]_vars

StatsReturned == ret.op = "calculerStatistiquesUE" /\ ret.res = "ok"

GradesINF202 == {r \in notes_finales : r.code_ue = "INF202"}

\* The k-th smallest grade of INF202 (k from 1).
KthGrade(k) ==
  CHOOSE v \in {r.note_finale : r \in GradesINF202} :
    /\ Cardinality({r \in GradesINF202 : r.note_finale < v}) < k
    /\ Cardinality({r \in GradesINF202 : r.note_finale <= v}) >= k

RECURSIVE SumNotes(_)
SumNotes(rows) ==
  IF rows = {} THEN 0
  ELSE LET r == CHOOSE x \in rows : TRUE
       IN r.note_finale + SumNotes(rows \ {r})

\* The grades 8, 10, 12, 14, 16, 18 and 20.
C15_ExampleGrades ==
  /\ Cardinality(GradesINF202) = 7
  /\ {r.note_finale : r \in GradesINF202} =
       {800, 1000, 1200, 1400, 1600, 1800, 2000}

\* C15: the stored statistics are the mean, the median interpolated at
\* rank 0.5 * (N - 1), the number of grades >= 10, the number of the
\* others and the pass rate in percent, each rounded to two decimals; the
\* grades 8..20 give mean 14.00, median 14.00 and pass rate 85.71.
C15_StatisticsOfGrades ==
  StatsReturned =>
    \E st \in statistiques :
      LET n == Cardinality(GradesINF202)
          pass == Cardinality({r \in GradesINF202 : r.note_finale >= 1000})
      IN /\ st.code_ue = "INF202"
         /\ st.nb_etudiants = n
         /\ st.moyenne_ue = RoundHalfAway(SumNotes(GradesINF202), n)
         /\ st.mediane =
              (IF n % 2 = 1 THEN KthGrade((n + 1) \div 2)
               ELSE RoundHalfAway(KthGrade(n \div 2) + KthGrade(n \div 2 + 1), 2))
         /\ st.nb_reussite = pass
         /\ st.nb_echec = n - pass
         /\ st.taux_reussite = RoundHalfAway(pass * 10000, n)
         /\ C15_ExampleGrades =>
              /\ st.moyenne_ue = 1400
              /\ st.mediane = 1400
              /\ st.taux_reussite = 8571

\* The statistics of the example have been computed.
C15_Witness ==
  /\ StatsReturned
  /\ C15_ExampleGrades
  /\ \E st \in statistiques : st.nb_etudiants = 7 /\ st.nb_reussite = 6

--------------------------------------------------------------------------
(* createEvaluation and createBatchEvaluations over a ledger that already  *)
(* holds entries                                                           *)

\* A ledger of ETU1 in INF202: for the component CC no entry or one in any
\* statut, for SN no entry or a final one; the final-grade table is what
\* the trigger left.
InitRecord ==
  /\ composantes = SeedINF202
  /\ \E e1 \in {None} \cup {EntryFor(1, 1, n, st) : n \in {800}, st \in Statuts} :
     \E n2 \in {800, 1500} :
       evaluations = {e1, EntryFor(2, 2, n2, "definitif")} \ {None}
  /\ LET rows == QualifyingRows(evaluations, composantes, "ETU1", "INF202")
     IN IF rows = {} THEN notes_finales = {}
        ELSE LET t == update_note_finale_ue(CHOOSE e \in rows : TRUE,
                                            evaluations, composantes, {})
             IN t.ok /\ notes_finales = t.nf
  /\ calls = [c \in {"w1"} |-> Idle]
  /\ ret = NoRet
  /\ recaps = {}
  /\ classement = <<>>
  /\ statistiques = {}
  /\ unites = SeedUnites
  /\ InitAuthPerms

\* The submissions repeat the first submission's date, author and comment
\* or change all three.
RecordMetas ==
  {FirstMeta,
   [date_evaluation |-> "2024-06-20", saisie_par |-> "ENS20230002",
    commentaire |-> "copie recorrigee"]}

NextRecord ==
  \/ \E c \in DOMAIN calls, etu \in Students \cup {"ETU0"}, cid \in CompIds,
        note \in Notes, meta \in RecordMetas, authorized \in BOOLEAN :
       createEvaluation_lookup(c, etu, cid, note, meta, authorized)
  \/ \E c \in DOMAIN calls : createEvaluation_write(c)
  \/ \E c \in DOMAIN calls, cid \in CompIds, n \in 1..MaxBatch, meta \in RecordMetas,
        authorized \in BOOLEAN :
       createBatchEvaluations_begin(c, cid, n, meta, authorized)
  \/ \E c \in DOMAIN calls, etu \in Students \cup {"ETU0"}, note \in Notes,
        commentaire \in Commentaires :
       createBatchEvaluations_item(c, etu, note, commentaire)
  \/ \E c \in DOMAIN calls : createBatchEvaluations_write(c)

SpecRecord == InitRecord /\ [][NextRecord]_vars

\* The ledger after the entry old took the submission held by the call k.
Overwritten(evals, old, k) ==
  (evals \ {old}) \cup
    {[old EXCEPT !.note = k.note,
                 !.note_sur_20 = RoundHalfAway(k.note * 20, 20),
                 !.date_evaluation = k.date_evaluation,
                 !.commentaire = k.commentaire,
                 !.version = old.version + 1]}

\* The call c found an entry for its (student, component) and its mark
\* passed the range check: its next step is the update.
UpdatesExisting(c) ==
  /\ calls[c].pc = "write"
  /\ calls[c].op \in {"createEvaluation", "createBatchEvaluations"}
  /\ calls[c].id # 0
  /\ calls'[c] # calls[c]

\* C16: a submission with a mark in range for a (student, component) that
\* has an entry overwrites the entry's mark, date and comment, makes its
\* version the previous version + 1 and leaves its id, author and statut,
\* and every other entry, as they were.
C16_ExistingEntryOverwritten ==
  [][\A c \in DOMAIN calls :
       UpdatesExisting(c)
       => \E old \in evaluations :
            /\ old.id = calls[c].id
            /\ old.matricule_etudiant = calls[c].etu
            /\ old.composante_id = calls[c].comp
            /\ evaluations' = Overwritten(evaluations, old, calls[c])]_vars

\* The update, whenever the store accepts it, is the one C16 describes: an
\* accepted update changes the mark, date, comment and version of the one
\* entry and nothing else in the ledger.
C16_AcceptedUpdateOverwrites ==
  [][\A c \in DOMAIN calls :
       (UpdatesExisting(c) /\ (evaluations' # evaluations \/ calls'[c].res = "ok"))
       => \E old \in evaluations :
            /\ old.id = calls[c].id
            /\ evaluations' = Overwritten(evaluations, old, calls[c])]_vars

\* A final entry was resubmitted by another teacher with a new mark, date
\* and comment.
C16_Witness ==
  /\ calls["w1"].pc = "done" /\ calls["w1"].res = "ok" /\ calls["w1"].id = 1
  /\ \E e \in evaluations :
       /\ e.id = 1 /\ e.version = 2 /\ e.statut = "definitif"
       /\ e.note = 1500
       /\ e.date_evaluation = "2024-06-20"
       /\ e.commentaire = "copie recorrigee"
       /\ e.saisie_par = "ENS20230001"
  /\ \E e \in evaluations : e.id = 2 /\ e.version = 1


C18_CapitalizedIffRoundedGradeAtLeast10 ==
  /\ \A r \in notes_finales : r.est_capitalisee <=> (r.note_finale >= 1000)
  /\ ret.op = "getNoteFinaleUE" /\ ret.res = "ok"
     => (ret.est_capitalisee <=> (ret.note_finale >= 1000))


--------------------------------------------------------------------------
(* The ledger operations together with the component operations; the      *)
(* entries are those of ETU1 for the first component of MAT201            *)

\* Weights and point scales of the component calls made next to ledger
\* calls.
CfgPourcentages == {0, 10000}
CfgPoints == {10, 20}

InitCfg ==
  /\ composantes = OneComposante
  /\ evaluations = {}
  /\ notes_finales = {}
  /\ calls = [c \in {"w1"} |-> Idle]
  /\ ret = NoRet
  /\ recaps = {}
  /\ classement = <<>>
  /\ statistiques = {}
  /\ unites = SeedUnites
  /\ InitAuthPerms

NextCfg ==
  \/ \E c \in DOMAIN calls, cid \in {0, 1}, note \in Notes,
        authorized \in BOOLEAN :
       createEvaluation_lookup(c, "ETU1", cid, note, FirstMeta, authorized)
  \/ \E c \in DOMAIN calls : createEvaluation_write(c)
  \/ \E c \in DOMAIN calls, cid \in {0, 1}, n \in 1..MaxBatch,
        authorized \in BOOLEAN :
       createBatchEvaluations_begin(c, cid, n, FirstMeta, authorized)
  \/ \E c \in DOMAIN calls, note \in Notes :
       createBatchEvaluations_item(c, "ETU1", note, "")
  \/ \E c \in DOMAIN calls : createBatchEvaluations_write(c)
  \/ \E c \in DOMAIN calls, id \in EvalIds, canValidate \in BOOLEAN :
       validateEvaluation_lookup(c, id, canValidate)
  \/ \E c \in DOMAIN calls : validateEvaluation_write(c)
  \/ \E c \in DOMAIN calls, id \in EvalIds, statut \in Statuts,
        canUpdate \in BOOLEAN, canSetRattrapage \in BOOLEAN :
       updateEvaluationStatus_lookup(c, id, statut, canUpdate,
                                     canSetRattrapage)
  \/ \E c \in DOMAIN calls : updateEvaluationStatus_write(c)
  \/ \E type \in {"CC"}, pourcentage \in CfgPourcentages,
        nb_points \in CfgPoints :
       addComposante("MAT201", type, pourcentage, nb_points)
  \/ \E id \in CompIds, p \in CfgPourcentages :
       updateComposante(id, [pourcentage |-> p])
  \/ \E id \in CompIds, n \in CfgPoints :
       updateComposante(id, [nb_points |-> n])

SpecCfg == InitCfg /\ [][NextCfg]_vars

--------------------------------------------------------------------------
(* UEService over units that may be archived                               *)

\* CryptoUtils.hashPassword and comparePassword: the hash is a one-way image
\* of the password and matches that password only.
hashPassword(password) == [bcrypt |-> password]

comparePassword(password, hash) == hash = hashPassword(password)

\* CryptoUtils.hashToken: a digest of the token.
hashToken(token) == [sha256 |-> token]

\* NULL in the columns refresh_token_hash and refresh_token_expiry.
NullHash == [sha256 |-> NoToken]

NullExpiry == -1

\* The password of the seeded accounts.
SeedPassword == "Admin123!"

\* A row of authperms.users with the defaults of the table: not connected,
\* no refresh token stored.
UserRow(matricule, role, is_active) ==
  [matricule |-> matricule, role |-> role,
   password |-> hashPassword(SeedPassword), is_active |-> is_active,
   is_connected |-> FALSE, refresh_token_hash |-> NullHash,
   refresh_token_expiry |-> NullExpiry]

\* The accounts the unit operations look teachers up in: two teachers, one
\* of them deactivated, and a student.
UnitUsers ==
  {UserRow("ENS20230001", "enseignant", TRUE),
   UserRow("ENS20230002", "enseignant", TRUE),
   UserRow("ENS20230003", "enseignant", FALSE),
   UserRow("ETU1", "etudiant", TRUE)}

UEStatuts == {"actif", "inactif", "archive"}

\* UERepository.validateEnseignant: an active account with the role
\* enseignant.
validateEnseignant(rows, matricule) ==
  \E u \in rows :
    u.matricule = matricule /\ u.role = "enseignant" /\ u.is_active

\* UERepository.update: SET of the fields the patch carries on the row
\* that is not deleted; UE_NOT_FOUND when no row was updated.
UERepository_update(codeUE, data, rows) ==
  LET old == UERepository_findByCode(rows, codeUE)
      new == [k \in DOMAIN old |-> IF k \in DOMAIN data THEN data[k] ELSE old[k]]
  IN IF old = None
     THEN [res |-> "UE_NOT_FOUND", rows |-> rows]
     ELSE [res |-> "ok", rows |-> (rows \ {old}) \cup {new}]

updateUE(codeUE, data) ==
  LET ue == UERepository_findByCode(unites, codeUE)
      w == UERepository_update(codeUE, data, unites)
      res == IF ue = None THEN "UE_NOT_FOUND"
             ELSE IF ue.statut = "archive" THEN "UE_ARCHIVED"
             ELSE w.res
  IN /\ unites' = IF res = "ok" THEN w.rows ELSE unites
     /\ ret' = Returns("updateUE", res)
     /\ UNCHANGED <<composantes, evaluations, notes_finales, calls, recaps,
                    classement, statistiques, authperms>>

assignEnseignant(codeUE, matriculeEnseignant) ==
  LET w == UERepository_update(
             codeUE, [enseignant_responsable |-> matriculeEnseignant], unites)
      res == IF ~validateEnseignant(users, matriculeEnseignant)
               THEN "INVALID_ENSEIGNANT"
             ELSE w.res
  IN /\ unites' = IF res = "ok" THEN w.rows ELSE unites
     /\ ret' = Returns("assignEnseignant", res)
     /\ UNCHANGED <<composantes, evaluations, notes_finales, calls, recaps,
                    classement, statistiques, authperms>>

\* The units INF202 (components CC and SN) and MAT201 (none) of the seed.
InitArchive ==
  /\ composantes = SeedINF202
  /\ evaluations = {}
  /\ notes_finales = {}
  /\ calls = [c \in {"w1"} |-> Idle]
  /\ ret = NoRet
  /\ recaps = {}
  /\ classement = <<>>
  /\ statistiques = {}
  /\ unites = {u \in SeedUnites : u.code_ue \in UECodes}
  /\ users = UnitUsers
  /\ InitSessions

NextArchive ==
  \/ \E codeUE \in UECodes \cup {"NOUE"}, statut \in UEStatuts :
       updateUE(codeUE, [statut |-> statut])
  \/ \E codeUE \in UECodes, m \in {"ENS20230002"} :
       updateUE(codeUE, [enseignant_responsable |-> m])
  \/ \E codeUE \in UECodes \cup {"NOUE"},
        m \in {"ENS20230001", "ENS20230003", "ETU1"} :
       assignEnseignant(codeUE, m)
  \/ \E codeUE \in UECodes, pourcentage \in CfgPourcentages :
       addComposante(codeUE, "TP", pourcentage, 0)
  \/ \E id \in CompIds, n \in CfgPoints :
       updateComposante(id, [nb_points |-> n])

SpecArchive == InitArchive /\ [][NextArchive]_vars

\* C21: an archived unit is never changed: after any updateUE,
\* assignEnseignant, addComposante or updateComposante call the unit's row
\* and its components are what they were.
C21_ArchivedUnitUnchanged ==
  [][\A u \in unites :
       (u.statut = "archive" /\ ~u.deleted)
       => /\ u \in unites'
          /\ {c \in composantes' : c.code_ue = u.code_ue}
               = {c \in composantes : c.code_ue = u.code_ue}]_vars


--------------------------------------------------------------------------
(* UEService.deleteUE next to EvaluationService.createEvaluation           *)

\* UERepository.hasEvaluations: an entry exists for a component of the unit.
hasEvaluations(codeUE, evals, comps) ==
  \E e \in evals :
    \E ce \in comps : e.composante_id = ce.id /\ ce.code_ue = codeUE

\* UERepository.delete: the unit's row is kept, marked deleted and inactif.
UERepository_delete(codeUE, rows) ==
  {IF u.code_ue = codeUE /\ ~u.deleted
   THEN [u EXCEPT !.deleted = TRUE, !.statut = "inactif"]
   ELSE u : u \in rows}

\* deleteUE up to the answer of hasEvaluations (lines 710-723).
deleteUE_check(c, codeUE) ==
  LET ue == UERepository_findByCode(unites, codeUE)
      res == IF ue = None THEN "UE_NOT_FOUND"
             ELSE IF hasEvaluations(codeUE, evaluations, composantes)
               THEN "UE_HAS_EVALUATIONS"
             ELSE ""
  IN /\ Free(c)
     /\ calls' = [calls EXCEPT ![c] =
                    IF res = ""
                    THEN [Idle EXCEPT !.pc = "delete", !.op = "deleteUE",
                                      !.code_ue = codeUE]
                    ELSE Done(0, 0, FALSE, res)]
     /\ UNCHANGED <<composantes, evaluations, notes_finales, ret, recaps,
                    classement, statistiques, unites, authperms>>

\* The rest of deleteUE: the statement of UERepository.delete (line 726).
deleteUE_delete(c) ==
  /\ calls[c].pc = "delete"
  /\ unites' = UERepository_delete(calls[c].code_ue, unites)
  /\ calls' = [calls EXCEPT ![c] = Done(0, 0, FALSE, "ok")]
  /\ UNCHANGED <<composantes, evaluations, notes_finales, ret, recaps,
                 classement, statistiques, authperms>>

\* MAT201 with its component of 100 %, no entry, two callers.
InitDelete ==
  /\ composantes = OneComposante
  /\ evaluations = {}
  /\ notes_finales = {}
  /\ calls = [c \in {"w1", "w2"} |-> Idle]
  /\ ret = NoRet
  /\ recaps = {}
  /\ classement = <<>>
  /\ statistiques = {}
  /\ unites = {u \in SeedUnites : u.code_ue \in UECodes}
  /\ users = UnitUsers
  /\ InitSessions

NextDelete ==
  \/ \E c \in DOMAIN calls, etu \in Students \cup {"ETU0"}, cid \in CompIds,
        note \in Notes, authorized \in BOOLEAN :
       createEvaluation_lookup(c, etu, cid, note, FirstMeta, authorized)
  \/ \E c \in DOMAIN calls : createEvaluation_write(c)
  \/ \E c \in DOMAIN calls, codeUE \in UECodes \cup {"NOUE"} :
       deleteUE_check(c, codeUE)
  \/ \E c \in DOMAIN calls : deleteUE_delete(c)

SpecDelete == InitDelete /\ [][NextDelete]_vars

--------------------------------------------------------------------------
(* Two calculerClassementNiveau calls for the same level, next to          *)
(* calculerMoyennesEtudiant                                                *)

\* The recap of student m as updateRecapEtudiant stores it, not ranked.
RecapRow(m, mg, mp) ==
  CHOOSE r \in updateRecapEtudiant(
                 {}, m, [NoResult EXCEPT !.moyenne_generale = mg,
                                         !.moyenne_ponderee = mp]) : TRUE

\* The lines of the classement for the rows in the order the store
\* returned them (lines 220-245).
classementOf(order) ==
  LET sorted == sortedRecaps(order)
  IN [i \in DOMAIN sorted |->
        [rang |-> rang(sorted, i),
         matricule |-> sorted[i].matricule_etudiant,
         moyenne_generale |-> sorted[i].moyenne_generale]]

\* calculerClassementNiveau up to the classement built from the rows read
\* (lines 213-245).
calculerClassementNiveau_read(c) ==
  /\ Free(c)
  /\ IF recaps = {}
     THEN calls' = [calls EXCEPT ![c] =
                      [Idle EXCEPT !.pc = "done",
                                   !.op = "calculerClassementNiveau",
                                   !.res = "NO_STUDENTS_FOUND"]]
     ELSE \E order \in StoreOrders(recaps) :
            calls' = [calls EXCEPT ![c] =
                        [Idle EXCEPT !.pc = "updateRangs",
                                     !.op = "calculerClassementNiveau",
                                     !.classement = classementOf(order)]]
  /\ UNCHANGED <<composantes, evaluations, notes_finales, ret, recaps,
                 classement, statistiques, unites, authperms>>

\* The rest of the call: updateRangs and the return (lines 248-257).
calculerClassementNiveau_updateRangs(c) ==
  /\ calls[c].pc = "updateRangs"
  /\ recaps' = updateRangs(recaps, calls[c].classement)
  /\ classement' = calls[c].classement
  /\ calls' = [calls EXCEPT ![c] = [@ EXCEPT !.pc = "done", !.res = "ok"]]
  /\ UNCHANGED <<composantes, evaluations, notes_finales, ret, statistiques,
                 unites, authperms>>

\* Level L2 with the recaps of ETU2 (average 2.00 or 4.00) and ETU3
\* (1.00), none of ETU1 yet, and two callers; a grade of 12.00 in INF202
\* gives ETU1 the average 3.00.
InitRankConc ==
  /\ composantes = SeedINF202
  /\ evaluations = {}
  /\ notes_finales = {}
  /\ calls = [c \in {"r1", "r2"} |-> Idle]
  /\ ret = NoRet
  /\ \E mg \in {200, 400} :
       recaps = {RecapRow("ETU2", mg, mg), RecapRow("ETU3", 100, 100)}
  /\ classement = <<>>
  /\ statistiques = {}
  /\ unites = SeedUnites
  /\ InitAuthPerms

NextRankConc ==
  \/ \E c \in DOMAIN calls : calculerClassementNiveau_read(c)
  \/ \E c \in DOMAIN calls : calculerClassementNiveau_updateRangs(c)
  \/ \E etu \in Students : calculerMoyennesEtudiant(etu)
  \/ \E raw \in {12000000} : StoreNoteFinale("ETU1", "INF202", raw)

SpecRankConc == InitRankConc /\ [][NextRankConc]_vars

\* The call c ended with its classement written.
RankDone(c) ==
  /\ calls[c].pc = "done"
  /\ calls[c].op = "calculerClassementNiveau"
  /\ calls[c].res = "ok"

\* C23: when the later of two calculerClassementNiveau calls completes,
\* the ranks stored on the level's recaps (those that one of the two
\* calls read) are those of the classement of one of the two calls in
\* full, a permutation of 1..N, never a mixture, also when a recap was
\* computed between the two reads.
C23_RanksOfOneCallInFull ==
  [][\A c, d \in DOMAIN calls :
       (/\ c # d
        /\ calls[c].pc = "updateRangs"
        /\ RankDone(d)
        /\ RankDone(c)'
        /\ \A r \in recaps' :
             \E w \in {c, d} : \E i \in DOMAIN calls[w].classement :
               calls[w].classement[i].matricule = r.matricule_etudiant)
       => /\ {r.rang : r \in recaps'} = 1..Cardinality(recaps')
          /\ \E w \in {c, d} :
               \A r \in recaps' :
                 \E i \in DOMAIN calls[w].classement :
                   /\ calls[w].classement[i].matricule = r.matricule_etudiant
                   /\ calls[w].classement[i].rang = r.rang]_vars


---------------------------------------------------------------------------
(* Recomputations over inputs that may be empty *)

RECURSIVE moyennesOf(_)
\* recaps.map(r => r.moyenne_generale || 0); what is computed from the
\* averages does not depend on their order.
moyennesOf(rows) ==
  IF rows = {} THEN <<>>
  ELSE LET m == CHOOSE r \in rows : TRUE
       IN <<m.moyenne_generale>> \o moyennesOf(rows \ {m})

\* The object returned for a level without recap (lines 361-370).
MoyenneClasseVide ==
  [moyenne_classe |-> 0, ecart_type |-> 0, note_min |-> 0, note_max |-> 0,
   taux_reussite |-> 0, nb_etudiants |-> 0]

\* The object of lines 372-391, in hundredths.
MoyenneClasse(rows) ==
  LET moyennes == moyennesOf(rows)
      n == Len(moyennes)
      vals == {moyennes[i] : i \in 1..n}
      nbReussite == Cardinality({i \in 1..n : moyennes[i] >= 1000})
  IN [moyenne_classe |-> MathRound(SumSeq(moyennes), n),
      ecart_type |-> ecartType(moyennes),
      note_min |-> CHOOSE v \in vals : \A w \in vals : v <= w,
      note_max |-> CHOOSE v \in vals : \A w \in vals : v >= w,
      taux_reussite |-> MathRound(nbReussite * 10000, n),
      nb_etudiants |-> n]

calculerMoyenneClasse ==
  /\ ret' = [Returns("calculerMoyenneClasse", "ok") EXCEPT
               !.result = IF recaps = {} THEN MoyenneClasseVide
                          ELSE MoyenneClasse(recaps)]
  /\ UNCHANGED <<composantes, evaluations, notes_finales, calls, recaps,
                 classement, statistiques, unites, authperms>>

\* Levels asked for: the level of the seeded units and one without unit.
Niveaux == {"L2", "M1"}

InitEmpty ==
  /\ composantes = SeedINF202
  /\ evaluations = {}
  /\ notes_finales = {}
  /\ calls = [c \in {"w1"} |-> Idle]
  /\ ret = NoRet
  /\ recaps = {}
  /\ classement = <<>>
  /\ statistiques = {}
  /\ unites = SeedUnites
  /\ InitAuthPerms

NextEmpty ==
  \/ \E etu \in Students, niveau \in Niveaux :
       calculerMoyennesEtudiantNiveau(etu, niveau)
  \/ calculerClassementNiveau
  \/ \E codeUE \in {"INF202", "MAT201"} : calculerStatistiquesUE(codeUE)
  \/ calculerMoyenneClasse
  \/ \E etu \in Students, params \in ParamsDeliberation \cup {NoParams} :
       verifierEligibiliteDeliberation(etu, params)
  \/ \E raw \in RecapSums : StoreNoteFinale("ETU1", "INF202", raw)

SpecEmpty == InitEmpty /\ [][NextEmpty]_vars

\* The derived tables are left as they were.
NoDerivedRowWritten ==
  /\ recaps' = recaps
  /\ classement' = classement
  /\ statistiques' = statistiques

\* The four recomputations that raise an error on an empty input: a call
\* without unit, recap, grade or params returns no result and writes nothing.
EmptyInputRaises ==
  /\ (ret'.op = "calculerMoyennesEtudiant" /\ ret'.res = "ok")
       => ret'.result.ue_total > 0
  /\ ret'.op = "calculerMoyennesEtudiant" /\ ret'.res = "NO_UE_FOUND"
       => NoDerivedRowWritten
  /\ ret'.op = "calculerClassementNiveau" /\ recaps = {}
       => ret'.res # "ok" /\ NoDerivedRowWritten
  /\ ret'.op = "calculerStatistiquesUE" /\ notes_finales = {}
       => ret'.res # "ok" /\ NoDerivedRowWritten
  /\ \A st \in statistiques' \ statistiques : st.nb_etudiants > 0
  /\ (ret'.op = "verifierEligibiliteDeliberation" /\ ret'.res = "ok")
       => ret'.result.params.found
  /\ ret'.op = "verifierEligibiliteDeliberation"
         /\ ret'.res = "PARAMS_NOT_FOUND"
       => NoDerivedRowWritten

C24_FourRecomputationsRaise == [][EmptyInputRaises]_vars

\* C24: a recomputation that finds no qualifying input (no unit, no recap,
\* no grade, no params) returns an error or an absent result, never a
\* result made of zero values, and writes no derived row.
C24_NoZeroResultOnEmptyInput ==
  [][/\ EmptyInputRaises
     /\ ret'.op = "calculerMoyenneClasse" /\ recaps = {}
          => ret'.res # "ok" /\ NoDerivedRowWritten]_vars


---------------------------------------------------------------------------
(* Mentions: the service's bands and the trigger's *)

\* C25: every final grade in [0, 20] gets the mention of the first band it
\* reaches (18 excellent, 16 tres-bien, 14 bien, 12 assez-bien, 10 passable,
\* 5 echec, else elimine), the service and the trigger give the same
\* mention to the same grade, and the stored row carries a mention the
\* table accepts.
C25_ServiceAndStoreSameMention ==
  ret.op = "getNoteFinaleUE" =>
    \A r \in notes_finales :
      (r.matricule_etudiant = "ETU1" /\ r.code_ue = "INF202") =>
        /\ r.mention = ret.mention
        /\ r.mention \in MentionsAllowed
        /\ ret.mention \in MentionsAllowed


---------------------------------------------------------------------------
(* The service authPerms: accounts and permissions *)

AuthReturns(op, res, matricule) ==
  [NoAuthRet EXCEPT !.op = op, !.res = res, !.matricule = matricule]

\* UserRepository.findByMatricule: the row of the account, None without one.
UserRepository_findByMatricule(rows, matricule) ==
  IF \E u \in rows : u.matricule = matricule
  THEN CHOOSE u \in rows : u.matricule = matricule
  ELSE None

\* A property of an update object: a value, or undefined.
Def(v) == [defined |-> TRUE, value |-> v]

Undefined == [defined |-> FALSE, value |-> FALSE]

\* UserRepository.update: repository.update({ matricule }, updates) sets the
\* columns whose property is defined and leaves the others as they are.
UserRepository_update(rows, matricule, updates) ==
  {IF r.matricule = matricule
   THEN [f \in DOMAIN r |->
           IF f \in DOMAIN updates /\ updates[f].defined
           THEN updates[f].value ELSE r[f]]
   ELSE r : r \in rows}

\* PermissionRepository.findByNomObjetAndAction.
findByNomObjetAndAction(rows, nom_objet, action) ==
  IF \E p \in rows : p.nom_objet_bd = nom_objet /\ p.type_permission = action
  THEN CHOOSE p \in rows :
         p.nom_objet_bd = nom_objet /\ p.type_permission = action
  ELSE None

\* UserPermissionRepository.findByUserAndPermission.
findByUserAndPermission(rows, mat, idperm) ==
  IF \E up \in rows : up.mat = mat /\ up.idperm = idperm
  THEN CHOOSE up \in rows : up.mat = mat /\ up.idperm = idperm
  ELSE None

\* A waiting row counts as a permission.
hasPermissionUnlessRevoked(userPermission) == userPermission.statut # "revoked"

\* const hasPermission = userPermission.statut === 'granted' (line 287).
hasPermission(userPermission) == userPermission.statut = "granted"

\* What checkPermission answers: the error it throws or the boolean.
checkPermissionResult(us, perms, ups, matricule, nom_objet, action) ==
  LET user == UserRepository_findByMatricule(us, matricule)
      permission == findByNomObjetAndAction(perms, nom_objet, action)
      userPermission ==
        findByUserAndPermission(ups, matricule, permission.id_perm)
  IN IF user = None THEN [res |-> "NotFoundError", allowed |-> FALSE]
     ELSE IF ~user.is_active
     THEN [res |-> "AuthorizationError", allowed |-> FALSE]
     ELSE IF user.role = "doyen" \/ user.role = "recteur"
     THEN [res |-> "ok", allowed |-> TRUE]
     ELSE IF permission = None THEN [res |-> "ok", allowed |-> FALSE]
     ELSE IF userPermission = None THEN [res |-> "ok", allowed |-> FALSE]
     ELSE [res |-> "ok", allowed |-> hasPermission(userPermission)]

checkPermission(matricule, nom_objet, action) ==
  LET r == checkPermissionResult(users, permissions, userperms, matricule,
                                 nom_objet, action)
  IN /\ authret' = [AuthReturns("checkPermission", r.res, matricule) EXCEPT
                      !.nom_objet = nom_objet, !.action = action,
                      !.allowed = r.allowed]
     /\ UNCHANGED <<users, permissions, userperms, token_blacklist, now,
                    tokens, accessTokenExpiry, revoked, notation>>

\* PermissionService.assignPermission: the user's row for the permission is
\* created or its status replaced.
assignPermission(matricule, idperm, statut) ==
  IF UserRepository_findByMatricule(users, matricule) = None
     \/ ~\E p \in permissions : p.id_perm = idperm
  THEN /\ authret' = AuthReturns("assignPermission", "NotFoundError", matricule)
       /\ UNCHANGED <<users, permissions, userperms, token_blacklist, now,
                      tokens, accessTokenExpiry, revoked, notation>>
  ELSE /\ userperms' =
            {up \in userperms : ~(up.mat = matricule /\ up.idperm = idperm)}
              \cup {[mat |-> matricule, idperm |-> idperm, statut |-> statut]}
       /\ authret' = AuthReturns("assignPermission", "ok", matricule)
       /\ UNCHANGED <<users, permissions, token_blacklist, now, tokens,
                      accessTokenExpiry, revoked, notation>>

\* UserService.updateUser: the account must exist; the given columns are set.
updateUser(op, matricule, updates) ==
  IF UserRepository_findByMatricule(users, matricule) = None
  THEN /\ authret' = AuthReturns(op, "NotFoundError", matricule)
       /\ UNCHANGED <<users, permissions, userperms, token_blacklist, now,
                      tokens, accessTokenExpiry, revoked, notation>>
  ELSE /\ users' = UserRepository_update(users, matricule, updates)
       /\ authret' = AuthReturns(op, "ok", matricule)
       /\ UNCHANGED <<permissions, userperms, token_blacklist, now, tokens,
                      accessTokenExpiry, revoked, notation>>

deactivateUser(matricule) ==
  updateUser("deactivateUser", matricule,
             [is_active |-> Def(FALSE), is_connected |-> Def(FALSE)])

activateUser(matricule) ==
  updateUser("activateUser", matricule, [is_active |-> Def(TRUE)])

\* The soft delete: the account is deactivated and its refresh token erased.
deleteUser(matricule) ==
  updateUser("deleteUser", matricule,
             [is_active |-> Def(FALSE), is_connected |-> Def(FALSE),
              refresh_token_hash |-> Def(NullHash),
              refresh_token_expiry |-> Def(NullExpiry)])

\* Three accounts of the seed: a teacher, a student and a dean.
PermUsers ==
  {UserRow("ENS000000001", "enseignant", TRUE),
   UserRow("ETU000000001", "etudiant", TRUE),
   UserRow("DOY000000001", "doyen", TRUE)}

\* Two permissions of the seed.
PermPermissions ==
  {[id_perm |-> 1, nom_objet_bd |-> "notes", type_permission |-> "read"],
   [id_perm |-> 2, nom_objet_bd |-> "notes", type_permission |-> "write"]}

\* The seed grants the teacher the permissions on notes.
PermUserPerms ==
  {[mat |-> "ENS000000001", idperm |-> p.id_perm, statut |-> "granted"] :
     p \in PermPermissions}

PermStatuts == {"granted", "revoked", "waiting"}

PermMatricules == {u.matricule : u \in PermUsers}

InitPerm ==
  /\ composantes = SeedINF202
  /\ evaluations = {}
  /\ notes_finales = {}
  /\ calls = [c \in {"w1"} |-> Idle]
  /\ ret = NoRet
  /\ recaps = {}
  /\ classement = <<>>
  /\ statistiques = {}
  /\ unites = SeedUnites
  /\ users = PermUsers
  /\ permissions = PermPermissions
  /\ userperms = PermUserPerms
  /\ token_blacklist = {}
  /\ now = 0
  /\ tokens = {}
  /\ accessTokenExpiry = DefaultAccessExpiry
  /\ revoked = {}
  /\ authret = NoAuthRet

NextPerm ==
  \/ \E m \in PermMatricules \cup {"XXX000000001"},
        nom_objet \in {"notes", "pv"}, action \in {"read", "write"} :
       checkPermission(m, nom_objet, action)
  \/ \E m \in {"ENS000000001", "ETU000000001", "XXX000000001"},
        statut \in PermStatuts :
       assignPermission(m, 1, statut)
  \/ \E m \in PermMatricules : deactivateUser(m)
  \/ \E m \in PermMatricules : activateUser(m)

SpecPerm == InitPerm /\ [][NextPerm]_vars

CheckReturned == authret.op = "checkPermission"

\* The user's row for the permission (object, action) that is granted.
GrantedRow(matricule, nom_objet, action) ==
  \E p \in permissions :
    /\ p.nom_objet_bd = nom_objet
    /\ p.type_permission = action
    /\ \E up \in userperms :
         up.mat = matricule /\ up.idperm = p.id_perm /\ up.statut = "granted"

---------------------------------------------------------------------------
(* The service authPerms: login, refresh, logout and the token blacklist *)

\* Hours the clock runs for.
MaxClock == 3

\* Logins that succeed in a run.
MaxLogins == 2

\* Hours a blacklisted token is kept: expiresAt.setHours(getHours() + 2).
BlacklistHours == 2

\* jwt.sign with the access secret and expiresIn: the payload, the time of
\* issue and the expiry. Two tokens signed for the same account at the same
\* time are the same token.
generateAccessToken(matricule, role, t, expiresIn) ==
  [kind |-> "access", matricule |-> matricule, role |-> role, iat |-> t,
   exp |-> t + expiresIn]

\* jwt.sign with the refresh secret.
generateRefreshToken(matricule, role, t) ==
  [kind |-> "refresh", matricule |-> matricule, role |-> role, iat |-> t,
   exp |-> t + RefreshExpiry]

\* jwt.verify with the access secret: the signature, then the expiry.
verifyAccessToken(token, t) ==
  IF token.kind # "access" THEN "InvalidTokenError"
  ELSE IF t >= token.exp THEN "TokenExpiredError"
  ELSE "ok"

\* jwt.verify with the refresh secret.
verifyRefreshToken(token, t) ==
  IF token.kind # "refresh" THEN "InvalidTokenError"
  ELSE IF t >= token.exp THEN "TokenExpiredError"
  ELSE "ok"

\* TokenRepository.blacklistToken: nothing when the token is listed already,
\* else a row that expires in two hours.
blacklistToken(rows, token, t) ==
  IF \E b \in rows : b.token = token THEN rows
  ELSE rows \cup {[token |-> token, expires_at |-> t + BlacklistHours]}

\* TokenRepository.isTokenBlacklisted: the answer and the table after the
\* call, an expired row being removed.
isTokenBlacklisted(rows, token, t) ==
  IF ~\E b \in rows : b.token = token
  THEN [blacklisted |-> FALSE, rows |-> rows]
  ELSE LET tokenEntity == CHOOSE b \in rows : b.token = token
       IN IF t > tokenEntity.expires_at
          THEN [blacklisted |-> FALSE, rows |-> rows \ {tokenEntity}]
          ELSE [blacklisted |-> TRUE, rows |-> rows]

\* The middleware authenticate on a request bearing the token: next() or
\* the 401 it answers, and the blacklist after the call.
authenticateRequest(rows, token, t) ==
  LET b == isTokenBlacklisted(rows, token, t)
      v == verifyAccessToken(token, t)
  IN [res |-> IF b.blacklisted THEN "401 INVALID_TOKEN"
              ELSE IF v = "ok" THEN "next"
              ELSE IF v = "TokenExpiredError" THEN "401 TOKEN_EXPIRED"
              ELSE "401 INVALID_TOKEN",
      rows |-> b.rows]

\* A request to a protected route other than logout.
authenticate(token) ==
  LET r == authenticateRequest(token_blacklist, token, now)
  IN /\ token_blacklist' = r.rows
     /\ authret' = [AuthReturns("authenticate", r.res, token.matricule)
                      EXCEPT !.token = token]
     /\ UNCHANGED <<users, permissions, userperms, now, tokens,
                    accessTokenExpiry, revoked, notation>>

\* AuthService.authenticate: the login.
AuthService_authenticate(matricule, password, role, userExists) ==
  LET found == UserRepository_findByMatricule(users, matricule)
      user == IF found = None
              THEN [UserRow(matricule, role, TRUE) EXCEPT
                      !.password = hashPassword(password)]
              ELSE found
      accessToken == generateAccessToken(user.matricule, user.role, now,
                                         accessTokenExpiry)
      refreshToken == generateRefreshToken(user.matricule, user.role, now)
      res == IF ~userExists THEN "NotFoundError"
             ELSE IF found = None THEN "ok"
             ELSE IF ~found.is_active THEN "AuthenticationError"
             ELSE IF ~comparePassword(password, found.password)
             THEN "AuthenticationError"
             ELSE "ok"
  IN IF res # "ok"
     THEN /\ authret' = AuthReturns("AuthService.authenticate", res, matricule)
          /\ UNCHANGED <<users, permissions, userperms, token_blacklist, now,
                         tokens, accessTokenExpiry, revoked, notation>>
     ELSE /\ Cardinality({t \in tokens \cup {refreshToken} :
                            t.kind = "refresh"}) <= MaxLogins
          /\ users' =
               UserRepository_update(
                 (users \ {found}) \cup {user}, user.matricule,
                 [is_connected |-> Def(TRUE),
                  refresh_token_hash |-> Def(hashToken(refreshToken)),
                  refresh_token_expiry |-> Def(now + RefreshExpiry)])
          /\ tokens' = tokens \cup {accessToken, refreshToken}
          /\ authret' = [AuthReturns("AuthService.authenticate", "ok",
                                     matricule)
                           EXCEPT !.token = accessToken]
          /\ UNCHANGED <<permissions, userperms, token_blacklist, now,
                         accessTokenExpiry, revoked, notation>>

\* What refreshAccessToken throws, or "ok".
refreshAccessTokenResult(us, refreshToken, t) ==
  LET v == verifyRefreshToken(refreshToken, t)
      user == UserRepository_findByMatricule(us, refreshToken.matricule)
  IN IF v # "ok" THEN v
     ELSE IF user = None THEN "NotFoundError"
     ELSE IF user.refresh_token_hash # hashToken(refreshToken)
     THEN "InvalidTokenError"
     ELSE IF user.refresh_token_expiry # NullExpiry
             /\ t > user.refresh_token_expiry
     THEN "TokenExpiredError"
     ELSE "ok"

refreshAccessToken(refreshToken) ==
  LET res == refreshAccessTokenResult(users, refreshToken, now)
      user == UserRepository_findByMatricule(users, refreshToken.matricule)
  IN IF res # "ok"
     THEN /\ authret' = AuthReturns("refreshAccessToken", res,
                                    refreshToken.matricule)
          /\ UNCHANGED <<users, permissions, userperms, token_blacklist, now,
                         tokens, accessTokenExpiry, revoked, notation>>
     ELSE LET newAccessToken ==
                generateAccessToken(user.matricule, user.role, now,
                                    accessTokenExpiry)
          IN /\ tokens' = tokens \cup {newAccessToken}
             /\ authret' = [AuthReturns("refreshAccessToken", "ok",
                                        user.matricule)
                              EXCEPT !.token = newAccessToken]
             /\ UNCHANGED <<users, permissions, userperms, token_blacklist,
                            now, accessTokenExpiry, revoked, notation>>

\* AuthService.logout: the update object carries is_connected and two
\* undefined properties.
AuthService_logout(rows, matricule) ==
  UserRepository_update(rows, matricule,
                        [is_connected |-> Def(FALSE),
                         refresh_token_hash |-> Undefined,
                         refresh_token_expiry |-> Undefined])

\* POST /logout: the middleware authenticate, then AuthController.logout,
\* which blacklists the bearer token and logs the user out.
AuthController_logout(token) ==
  LET r == authenticateRequest(token_blacklist, token, now)
  IN IF r.res # "next"
     THEN /\ token_blacklist' = r.rows
          /\ authret' = [AuthReturns("logout", r.res, token.matricule)
                           EXCEPT !.token = token]
          /\ UNCHANGED <<users, permissions, userperms, now, tokens,
                         accessTokenExpiry, revoked, notation>>
     ELSE /\ token_blacklist' = blacklistToken(r.rows, token, now)
          /\ users' = AuthService_logout(users, token.matricule)
          /\ revoked' = revoked \cup {token}
          /\ authret' = [AuthReturns("logout", "ok", token.matricule)
                           EXCEPT !.token = token]
          /\ UNCHANGED <<permissions, userperms, now, tokens,
                         accessTokenExpiry, notation>>

\* An hour passes.
Tick ==
  /\ now < MaxClock
  /\ now' = now + 1
  /\ UNCHANGED <<users, permissions, userperms, token_blacklist, tokens,
                 accessTokenExpiry, revoked, authret, notation>>

\* The lifetimes of the access token the service is started with: the
\* default of two hours, or four hours set in JWT_ACCESS_EXPIRY.
AccessExpiries == {DefaultAccessExpiry, 4}

SessionUser == "ETU000000001"

\* The service started with the lifetime e of the access token, one account
\* of the seed, nobody logged in.
InitTokens(e) ==
  /\ composantes = SeedINF202
  /\ evaluations = {}
  /\ notes_finales = {}
  /\ calls = [c \in {"w1"} |-> Idle]
  /\ ret = NoRet
  /\ recaps = {}
  /\ classement = <<>>
  /\ statistiques = {}
  /\ unites = SeedUnites
  /\ users = {UserRow(SessionUser, "etudiant", TRUE)}
  /\ permissions = {}
  /\ userperms = {}
  /\ token_blacklist = {}
  /\ now = 0
  /\ tokens = {}
  /\ accessTokenExpiry = e
  /\ revoked = {}
  /\ authret = NoAuthRet

login ==
  \E password \in {SeedPassword, "wrong"}, userExists \in BOOLEAN :
    AuthService_authenticate(SessionUser, password, "etudiant", userExists)

InitSession == InitTokens(DefaultAccessExpiry)

NextSession ==
  \/ login
  \/ \E t \in tokens : refreshAccessToken(t)
  \/ \E t \in tokens : AuthController_logout(t)
  \/ deactivateUser(SessionUser)
  \/ activateUser(SessionUser)
  \/ deleteUser(SessionUser)
  \/ Tick

SpecSession == InitSession /\ [][NextSession]_vars

\* The account the last answer is about.
AnsweredUser == {u \in users : u.matricule = authret.matricule}

C27_LogoutDisconnects ==
  (authret.op = "logout" /\ authret.res = "ok") =>
    \A u \in AnsweredUser : ~u.is_connected


---------------------------------------------------------------------------
(* The ledger and what is computed from it *)

FrameNotes == {1500}

FrameParams == [min_capitalisation |-> 5000, max_ue_non_capitalisees |-> 2,
                found |-> TRUE]

InitFrame ==
  /\ composantes = SeedINF202
  /\ evaluations = {}
  /\ notes_finales = {}
  /\ calls = [c \in {"w1"} |-> Idle]
  /\ ret = NoRet
  /\ recaps = {}
  /\ classement = <<>>
  /\ statistiques = {}
  /\ unites = SeedUnites
  /\ InitAuthPerms

NextFrame ==
  \/ \E c \in DOMAIN calls, cid \in {1, 2}, note \in FrameNotes :
       createEvaluation_lookup(c, "ETU1", cid, note, FirstMeta, TRUE)
  \/ \E c \in DOMAIN calls : createEvaluation_write(c)
  \/ \E c \in DOMAIN calls, id \in EvalIds :
       validateEvaluation_lookup(c, id, TRUE)
  \/ \E c \in DOMAIN calls : validateEvaluation_write(c)
  \/ getNoteFinaleUE("ETU1", "INF202")
  \/ calculerMoyennesEtudiant("ETU1")
  \/ calculerClassementNiveau
  \/ calculerStatistiquesUE("INF202")
  \/ verifierEligibiliteDeliberation("ETU1", FrameParams)

SpecFrame == InitFrame /\ [][NextFrame]_vars

\* The entries a step added, removed or changed.
ChangedIds ==
  {e.id : e \in (evaluations' \ evaluations) \cup (evaluations \ evaluations')}

---------------------------------------------------------------------------
(* Revoked access tokens *)

InitRevoke == \E e \in AccessExpiries : InitTokens(e)

NextRevoke ==
  \/ login
  \/ \E t \in tokens : AuthController_logout(t)
  \/ \E t \in tokens : authenticate(t)
  \/ Tick

SpecRevoke == InitRevoke /\ [][NextRevoke]_vars

\* The middleware let a request through.
Accepted == authret.op = "authenticate" /\ authret.res = "next"

C29_RejectedWithDefaultExpiry ==
  (Accepted /\ accessTokenExpiry = DefaultAccessExpiry)
    => authret.token \notin revoked


---------------------------------------------------------------------------
(* Deactivated accounts *)

C30_NoLoginForDeactivatedUser ==
  (authret.op = "AuthService.authenticate" /\ authret.res = "ok")
    => \A u \in AnsweredUser : u.is_active

==========================================================================
